---- MODULE Spec2Model ----
(***************************************************************************)
(* hipages lead monitor: the window/quota main loop (main), the scrape     *)
(* cycle (performScrapeCycle) with its lead ledger (cache.matchedLeads),   *)
(* the leads.json store (initializeCache / writeCache) and the e-mail      *)
(* notifier (sendEmailNotification) of the scraper with DAILY_LIMIT and    *)
(* MORNING_LIMIT (src/unnamed/part_000, lines 438-950), and the            *)
(* interval-driven scraper with its cache of accepted titles               *)
(* (src/index.js, lines 299-614).                                          *)
(*                                                                         *)
(* Instants are epoch milliseconds in local time.  A date string is the    *)
(* pair of its format and what the format keeps of the instant.            *)
(***************************************************************************)
EXTENDS Integers, Sequences, FiniteSets, TLC

VARIABLES
    cfg,          \* the configuration read from process.env at start-up
    store,        \* the leads.json file
    loaded,       \* main's `cache` as initializeCache returned it (line 858)
    cache,        \* main's `cache` at the end of the last loop iteration
    now,          \* main's `now` of the last loop iteration
    wakeAt,       \* the instant the pending sleep() of the loop ends
    browser,      \* main's `browser` is not null
    running,      \* the while(true) loop of main has not been left
    tickKind,     \* the branch the last loop iteration took
    leadsOnPage,  \* performScrapeCycle's `leadsOnPage` of the last cycle
    sent,         \* the sendEmailNotification calls of the last iteration
    newSent,      \* per lead id: calls without elapsedTime so far (capped)
    transSent,    \* per lead id: calls with elapsedTime so far (capped)
    faults,       \* the failures the environment injected in the last iteration
    saved,        \* the last cycle called writeCache (line 830)
    pc,           \* where main stands: in its loop, or at `await performScrapeCycle`
    inFlight,     \* the calls of performScrapeCycle that have not returned
    acceptedLeadTitles, \* index.js: the Set of startScraper (line 552)
    leadsFile,    \* index.js: the leads.json file of titles
    document,     \* index.js: the document the one page shows
    jobs,         \* index.js: per run of intervalJob, where it stands
    runCount,     \* index.js: startScraper's runCount (line 565)
    scraperInterval, \* index.js: startScraper's scraperInterval (line 555)
    launched,     \* index.js: the browser is launched and not closed
    clicks,       \* index.js: per title, the clicks on its Accept link
    phase         \* index.js: where startScraper stands

mainVars == <<cfg, store, loaded, cache, now, wakeAt, browser, running,
              tickKind, leadsOnPage, sent, newSent, transSent, faults,
              saved, pc, inFlight>>

scraperVars == <<acceptedLeadTitles, leadsFile, document, jobs, runCount,
                 scraperInterval, launched, clicks, phase>>

vars == <<mainVars, scraperVars>>

----------------------------------------------------------------------------
(* Bounds of the model *)

\* the longest page (number of <article> elements) the source returns
MaxPage == 2
\* the number of calendar days the clock runs over
Days == 2
\* the notification counters stop counting here
MaxSent == 2
\* index.js: the number of runs of intervalJob
MaxRuns == 3

----------------------------------------------------------------------------
(* Time *)

SECOND == 1000
MINUTE == 60 * SECOND
HOUR == 60 * MINUTE
DAY == 24 * HOUR

\* Date.setHours(0, 0, 0, 0)
StartOfDay(t) == t - (t % DAY)

\* Date.setHours(h, m, 0, 0)
SetHours(t, h, m) == StartOfDay(t) + h * HOUR + m * MINUTE

\* Date.toISOString(): millisecond precision
toISOString(t) == [fmt |-> "iso", v |-> t]

\* Date.toLocaleString(): "M/D/YYYY, h:mm:ss AM", second precision
toLocaleString(t) == [fmt |-> "locale", v |-> t \div SECOND]

\* new Date(string).getTime()
DateParse(s) == IF s.fmt = "iso" THEN s.v ELSE s.v * SECOND

----------------------------------------------------------------------------
(* Configuration (process.env) *)

\* a text is a sequence of characters
toLowerChar(c) == CASE c = "A" -> "a" [] c = "B" -> "b" [] OTHER -> c

\* String.prototype.toLowerCase
toLowerCase(s) == [i \in 1..Len(s) |-> toLowerChar(s[i])]

\* String.prototype.includes
includes(s, k) == \E i \in 0..(Len(s) - Len(k)) : SubSeq(s, i + 1, i + Len(k)) = k

\* the configurations the model runs under: the window, the two limits,
\* the keywords and the match type; the last two have a daily limit of 0
\* and a window that ends when it starts
Configs ==
    { [START_HOUR |-> 8, START_MINUTE |-> 0, END_HOUR |-> 18, END_MINUTE |-> 0,
       DAILY_LIMIT |-> 2, MORNING_LIMIT |-> 1,
       KEYWORD_ARRAY |-> << <<"a", "b">> >>, MATCH_TYPE |-> "each"],
      [START_HOUR |-> 8, START_MINUTE |-> 0, END_HOUR |-> 18, END_MINUTE |-> 0,
       DAILY_LIMIT |-> 1, MORNING_LIMIT |-> 1,
       KEYWORD_ARRAY |-> << <<"a", "b">> >>, MATCH_TYPE |-> "each"],
      [START_HOUR |-> 8, START_MINUTE |-> 0, END_HOUR |-> 18, END_MINUTE |-> 0,
       DAILY_LIMIT |-> 1, MORNING_LIMIT |-> 0,
       KEYWORD_ARRAY |-> << <<"a", "b">> >>, MATCH_TYPE |-> "each"],
      [START_HOUR |-> 8, START_MINUTE |-> 0, END_HOUR |-> 18, END_MINUTE |-> 0,
       DAILY_LIMIT |-> 0, MORNING_LIMIT |-> 0,
       KEYWORD_ARRAY |-> << <<"a", "b">> >>, MATCH_TYPE |-> "each"],
      [START_HOUR |-> 8, START_MINUTE |-> 0, END_HOUR |-> 8, END_MINUTE |-> 0,
       DAILY_LIMIT |-> 2, MORNING_LIMIT |-> 1,
       KEYWORD_ARRAY |-> << <<"a", "b">> >>, MATCH_TYPE |-> "each"] }

\* setInterval-free loop: the pause between two cycles, SCRAPER_INTERVAL_SECONDS || '10'
CHECK_INTERVAL_MS == 10 * SECOND

----------------------------------------------------------------------------
(* The page: what page.$$eval('article', ...) sees *)

Ids == {"x", "y"}

\* the heading/description text of an article
Texts == { <<"A", "b">>, <<"c">> }

\* an <article>: its id, whether its status span reads "Waitlist", its text
Articles == [id : Ids, waitlist : {FALSE}, text : Texts]
            \cup [id : Ids, waitlist : {TRUE}, text : { <<"A", "b">> }]

\* the pages of up to MaxPage articles, and those of at most one
Pages == UNION { [1..n -> Articles] : n \in 0..MaxPage }
ShortPages == { page \in Pages : Len(page) <= 1 }

\* the instants at which the loop looks at the clock under Spec: one morning
\* (before the window, twice before noon, once after noon)
FirstScan == 8 * HOUR + 900
Instants == { 7 * HOUR, FirstScan, 11 * HOUR + 59 * MINUTE + 59 * SECOND,
              12 * HOUR + 10 * SECOND }

\* under Spec the first scan of the day meets a page of up to MaxPage
\* articles, the later ones a page of at most one
PagesAt(t) == IF t = FirstScan THEN Pages ELSE ShortPages

\* ... and under SpecClock: the edges of the window and of noon on the first
\* day, the start of the window and noon on the days after
Offsets == { 7 * HOUR, 8 * HOUR, 11 * HOUR + 59 * MINUTE + 59 * SECOND + 900,
             12 * HOUR, 18 * HOUR, 18 * HOUR + SECOND }
LaterOffsets == { 8 * HOUR, 12 * HOUR }
ClockInstants == Offsets \cup { d * DAY + o : d \in 1..(Days - 1), o \in LaterOffsets }

----------------------------------------------------------------------------
(* Helpers of the scraper *)

\* formatElapsedTime(ms): the parts of the formatted duration
formatElapsedTime(ms) ==
    LET totalSeconds == ms \div SECOND
        days == totalSeconds \div 86400
        hours == (totalSeconds % 86400) \div 3600
        minutes == (totalSeconds % 3600) \div 60
        seconds == totalSeconds % 60
    IN  (IF days > 0 THEN << <<days, "day(s)">> >> ELSE <<>>)
        \o (IF hours > 0 THEN << <<hours, "hour(s)">> >> ELSE <<>>)
        \o (IF minutes > 0 THEN << <<minutes, "minute(s)">> >> ELSE <<>>)
        \o << <<seconds, "second(s)">> >>

\* getWindowTimes(date)
getWindowTimes(c, date) ==
    [start |-> SetHours(date, c.START_HOUR, c.START_MINUTE),
     end |-> SetHours(date, c.END_HOUR, c.END_MINUTE)]

\* a count that forgets the status of the lead
getTodaysMatchesAnyStatus(matchedLeads, t) ==
    LET today == StartOfDay(t)
        tomorrow == today + DAY
        keep(lead) == /\ DateParse(lead.matchedOn) >= today
                      /\ DateParse(lead.matchedOn) < tomorrow
    IN  SelectSeq(matchedLeads, keep)

\* getTodaysMatches(cache), with `today` taken from the instant t
getTodaysMatches(matchedLeads, t) ==
    LET today == StartOfDay(t)
        tomorrow == today + DAY
        keep(lead) == /\ DateParse(lead.matchedOn) >= today
                      /\ DateParse(lead.matchedOn) < tomorrow
                      /\ lead.currentStatus = "Potential Lead"
    IN  SelectSeq(matchedLeads, keep)

\* a keyword test that ignores the match type
KeywordMatchSome(text, keywords, matchType) ==
    LET lowerCaseTextToSearch == toLowerCase(text)
    IN  IF lowerCaseTextToSearch = <<>> THEN FALSE
        ELSE \E i \in 1..Len(keywords) : includes(lowerCaseTextToSearch, keywords[i])

\* the keyword test inside the $$eval callback
KeywordMatch(text, keywords, matchType) ==
    LET lowerCaseTextToSearch == toLowerCase(text)
    IN  IF lowerCaseTextToSearch = <<>> THEN FALSE
        ELSE IF matchType = "all"
             THEN \A i \in 1..Len(keywords) : includes(lowerCaseTextToSearch, keywords[i])
             ELSE \E i \in 1..Len(keywords) : includes(lowerCaseTextToSearch, keywords[i])

\* a callback that looks at the keywords first and at the status second
ScrapeArticleKeywordsFirst(article, keywords, matchType) ==
    LET waitlisted == article.waitlist
        keywordHit == KeywordMatch(article.text, keywords, matchType)
        hasMatch == waitlisted \/ keywordHit
        status == IF keywordHit THEN "Potential Lead"
                  ELSE IF waitlisted THEN "Already Waitlisted" ELSE "null"
    IN  [id |-> article.id,
         hasMatch |-> hasMatch,
         status |-> status,
         links |-> IF hasMatch THEN << [href |-> article.id, text |-> "Accept"] >> ELSE <<>>,
         content |-> <<article.waitlist, article.text>>]

\* the $$eval callback on one article: status first, keywords second
ScrapeArticle(article, keywords, matchType) ==
    LET waitlisted == article.waitlist
        hasMatch == waitlisted \/ KeywordMatch(article.text, keywords, matchType)
        status == IF waitlisted THEN "Already Waitlisted"
                  ELSE IF hasMatch THEN "Potential Lead" ELSE "null"
    IN  [id |-> article.id,
         hasMatch |-> hasMatch,
         status |-> status,
         links |-> IF hasMatch THEN << [href |-> article.id, text |-> "Accept"] >> ELSE <<>>,
         content |-> <<article.waitlist, article.text>>]

\* a lookup that only looks at the newest lead of the ledger
findIndexNewestOnly(matchedLeads, id) ==
    IF Len(matchedLeads) > 0 /\ matchedLeads[1].id = id THEN 1 ELSE 0

\* Array.prototype.findIndex(l => l.id === id), 1-based, 0 for "not found"
findIndex(matchedLeads, id) ==
    IF \E i \in 1..Len(matchedLeads) : matchedLeads[i].id = id
    THEN CHOOSE i \in 1..Len(matchedLeads) :
            /\ matchedLeads[i].id = id
            /\ \A j \in 1..(i - 1) : matchedLeads[j].id # id
    ELSE 0

----------------------------------------------------------------------------
(* The store: leads.json *)

\* writeCache(cache): the error of a failed write is caught and logged
writeCache(file, matchedLeads, writeFails) ==
    IF writeFails THEN file ELSE [kind |-> "ledger", matchedLeads |-> matchedLeads]

\* a load that answers an unreadable file with an empty ledger and leaves
\* the file as it is
initializeCacheNoRewrite(file, writeFails) ==
    IF file.kind = "ledger"
    THEN [matchedLeads |-> file.matchedLeads, file |-> file]
    ELSE [matchedLeads |-> <<>>, file |-> file]

\* the file holds JSON text whose value is not { matchedLeads: [...] }
WrongShapes == {"null", "array", "object"}

\* cache.matchedLeads is an array: the filter of line 571 does not throw
Shaped(file) == file.kind \notin WrongShapes

\* initializeCache(): the ledger read from the file, and the file afterwards;
\* whatever JSON.parse returns is returned as it is
initializeCache(file, writeFails) ==
    IF file.kind \in {"ledger"} \cup WrongShapes
    THEN [matchedLeads |-> file.matchedLeads, file |-> file]
    ELSE [matchedLeads |-> <<>>, file |-> writeCache(file, <<>>, writeFails)]

----------------------------------------------------------------------------
(* The notifier *)

\* a call sendEmailNotification(lead, elapsedTime); <<>> for no elapsedTime
Notification(lead, elapsedTime) ==
    [id |-> lead.id, currentStatus |-> lead.currentStatus, elapsedTime |-> elapsedTime]

\* a notifier that lets the error of transporter.sendMail out
NotifierRethrows(mailFails) == mailFails

\* lines 609-630: transporter.sendMail runs inside try/catch, the error is
\* logged and sendEmailNotification returns normally
NotifierThrows(mailFails) == FALSE

----------------------------------------------------------------------------
(* performScrapeCycle *)

\* the accept steps without the finally: a throw skips the notification
AcceptThenNotify(out, newLead, acceptThrows) ==
    IF acceptThrows THEN out ELSE Append(out, Notification(newLead, <<>>))

\* try { accept steps } catch { log } finally { sendEmailNotification(newLead) }
AcceptAndNotify(out, newLead, acceptThrows) ==
    Append(out, Notification(newLead, <<>>))

\* a new-lead branch that pushes the lead at the end of the ledger
NewLeadAppended(acc, scrapedArticle, t, acceptThrows) ==
    LET nowISO == toLocaleString(t)
        newLead == [id |-> scrapedArticle.id,
                    matchedOn |-> nowISO,
                    links |-> scrapedArticle.links,
                    content |-> scrapedArticle.content,
                    currentStatus |-> scrapedArticle.status,
                    statusHistory |-> << [datetime_changed |-> nowISO,
                                          new_status |-> scrapedArticle.status] >>]
    IN  [acc EXCEPT
            !.cacheUpdated = TRUE,
            !.accepting = @ \/ newLead.currentStatus = "Potential Lead",
            !.matchedLeads = Append(acc.matchedLeads, newLead),
            !.sent = IF newLead.currentStatus = "Potential Lead"
                     THEN AcceptAndNotify(acc.sent, newLead, acceptThrows)
                     ELSE acc.sent]

\* the "NEW LEAD LOGIC" branch once the page screenshot has been taken
NewLead(acc, scrapedArticle, t, acceptThrows) ==
    LET nowISO == toLocaleString(t)
        newLead == [id |-> scrapedArticle.id,
                    matchedOn |-> nowISO,
                    links |-> scrapedArticle.links,
                    content |-> scrapedArticle.content,
                    currentStatus |-> scrapedArticle.status,
                    statusHistory |-> << [datetime_changed |-> nowISO,
                                          new_status |-> scrapedArticle.status] >>]
    IN  [acc EXCEPT
            !.cacheUpdated = TRUE,
            !.accepting = @ \/ newLead.currentStatus = "Potential Lead",
            !.matchedLeads = <<newLead>> \o acc.matchedLeads,
            !.sent = IF newLead.currentStatus = "Potential Lead"
                     THEN AcceptAndNotify(acc.sent, newLead, acceptThrows)
                     ELSE acc.sent]

\* a transition that replaces the status history instead of appending to it
TransitionOverwrite(acc, existingLeadIndex, t) ==
    LET existingLead == acc.matchedLeads[existingLeadIndex]
        nowISO == toISOString(t)
        newStatus == "Transitioned to Waitlisted"
        changed == [existingLead EXCEPT
                       !.currentStatus = newStatus,
                       !.statusHistory = << [datetime_changed |-> nowISO,
                                             new_status |-> newStatus] >>]
        elapsedTimeMs == DateParse(nowISO) - DateParse(existingLead.matchedOn)
    IN  [acc EXCEPT
            !.cacheUpdated = TRUE,
            !.matchedLeads = [acc.matchedLeads EXCEPT ![existingLeadIndex] = changed],
            !.sent = Append(acc.sent, Notification(changed, formatElapsedTime(elapsedTimeMs)))]

\* a transition that also restamps matchedOn
TransitionRestamped(acc, existingLeadIndex, t) ==
    LET existingLead == acc.matchedLeads[existingLeadIndex]
        nowISO == toISOString(t)
        newStatus == "Transitioned to Waitlisted"
        changed == [existingLead EXCEPT
                       !.matchedOn = nowISO,
                       !.currentStatus = newStatus,
                       !.statusHistory = Append(existingLead.statusHistory,
                           [datetime_changed |-> nowISO, new_status |-> newStatus])]
        elapsedTimeMs == DateParse(nowISO) - DateParse(existingLead.matchedOn)
    IN  [acc EXCEPT
            !.cacheUpdated = TRUE,
            !.matchedLeads = [acc.matchedLeads EXCEPT ![existingLeadIndex] = changed],
            !.sent = Append(acc.sent, Notification(changed, formatElapsedTime(elapsedTimeMs)))]

\* the status transition of the "EXISTING LEAD LOGIC" branch
Transition(acc, existingLeadIndex, t) ==
    LET existingLead == acc.matchedLeads[existingLeadIndex]
        nowISO == toISOString(t)
        newStatus == "Transitioned to Waitlisted"
        changed == [existingLead EXCEPT
                       !.currentStatus = newStatus,
                       !.statusHistory = Append(existingLead.statusHistory,
                           [datetime_changed |-> nowISO, new_status |-> newStatus])]
        initialTime == DateParse(existingLead.matchedOn)
        transitionTime == DateParse(nowISO)
        elapsedTimeMs == transitionTime - initialTime
    IN  [acc EXCEPT
            !.cacheUpdated = TRUE,
            !.matchedLeads = [acc.matchedLeads EXCEPT ![existingLeadIndex] = changed],
            !.sent = Append(acc.sent, Notification(changed, formatElapsedTime(elapsedTimeMs)))]

\* a new-lead test that lets every unknown record through
IsNewMatchAlways(scrapedArticle) == TRUE

\* line 695: scrapedArticle.hasMatch && scrapedArticle.status
IsNewMatch(scrapedArticle) ==
    scrapedArticle.hasMatch /\ scrapedArticle.status # "null"

\* a transition test that forgets the lead's current status
IsTransitionAnyStatus(existingLead, scrapedArticle) ==
    scrapedArticle.status = "Already Waitlisted"

\* line 808: a Potential Lead now shows the Waitlist marker
IsTransition(existingLead, scrapedArticle) ==
    /\ existingLead.currentStatus = "Potential Lead"
    /\ scrapedArticle.status = "Already Waitlisted"

\* an awaited sendEmailNotification that throws takes the loop to the catch
\* of line 835
Notified(acc, next, mailFails) ==
    IF next.sent # acc.sent /\ NotifierThrows(mailFails)
    THEN [next EXCEPT !.aborted = TRUE]
    ELSE next

\* the for-loop over leadsOnPage from record k on; the page screenshot of a
\* new lead throws at record failAt
RECURSIVE ProcessFrom(_, _, _, _, _)
ProcessFrom(recs, k, acc, t, f) ==
    IF k > Len(recs) \/ acc.aborted THEN acc
    ELSE
      LET scrapedArticle == recs[k]
          existingLeadIndex == findIndex(acc.matchedLeads, scrapedArticle.id)
      IN  IF existingLeadIndex = 0
          THEN IF IsNewMatch(scrapedArticle)
               THEN IF f.failAt = k
                    THEN [acc EXCEPT !.aborted = TRUE]
                    ELSE ProcessFrom(recs, k + 1,
                                     Notified(acc, NewLead(acc, scrapedArticle, t, f.acceptThrows),
                                              f.mailFails), t, f)
               ELSE ProcessFrom(recs, k + 1, acc, t, f)
          ELSE IF IsTransition(acc.matchedLeads[existingLeadIndex], scrapedArticle)
               THEN ProcessFrom(recs, k + 1,
                                Notified(acc, Transition(acc, existingLeadIndex, t),
                                         f.mailFails), t, f)
               ELSE ProcessFrom(recs, k + 1, acc, t, f)

\* a cycle that writes the file in a finally, whatever happened
performScrapeCycleSaving(c, file, matchedLeads, page, t, f) ==
    LET start == [matchedLeads |-> matchedLeads, sent |-> <<>>,
                  cacheUpdated |-> FALSE, aborted |-> FALSE, accepting |-> FALSE]
        recs == [i \in 1..Len(page) |->
                    ScrapeArticle(page[i], c.KEYWORD_ARRAY, c.MATCH_TYPE)]
        done == ProcessFrom(recs, 1, start, t, f)
    IN  IF f.failAt = 0
        THEN [matchedLeads |-> matchedLeads, sent |-> <<>>, leadsOnPage |-> <<>>,
              aborted |-> TRUE, accepting |-> FALSE, writes |-> TRUE,
              file |-> writeCache(file, matchedLeads, f.writeFails)]
        ELSE [matchedLeads |-> done.matchedLeads, sent |-> done.sent,
              leadsOnPage |-> recs,
              aborted |-> done.aborted, accepting |-> done.accepting,
              writes |-> TRUE,
              file |-> writeCache(file, done.matchedLeads, f.writeFails)]

\* performScrapeCycle(page, cache) at instant t on the page `page`:
\* the ledger, the notifications, the extracted records and the file afterwards
performScrapeCycle(c, file, matchedLeads, page, t, f) ==
    LET start == [matchedLeads |-> matchedLeads, sent |-> <<>>,
                  cacheUpdated |-> FALSE, aborted |-> FALSE, accepting |-> FALSE]
        recs == [i \in 1..Len(page) |->
                    ScrapeArticle(page[i], c.KEYWORD_ARRAY, c.MATCH_TYPE)]
        done == ProcessFrom(recs, 1, start, t, f)
    IN  IF f.failAt = 0
        THEN [matchedLeads |-> matchedLeads, sent |-> <<>>, leadsOnPage |-> <<>>,
              aborted |-> TRUE, accepting |-> FALSE, writes |-> FALSE,
              file |-> file]
        ELSE [matchedLeads |-> done.matchedLeads, sent |-> done.sent,
              leadsOnPage |-> recs,
              aborted |-> done.aborted, accepting |-> done.accepting,
              writes |-> done.cacheUpdated /\ ~done.aborted,
              file |-> IF done.cacheUpdated /\ ~done.aborted
                       THEN writeCache(file, done.matchedLeads, f.writeFails)
                       ELSE file]

----------------------------------------------------------------------------
(* main: one iteration of the while(true) loop *)

\* no page screenshot fails
NoFail == MaxPage + 1

\* what the environment may do to one iteration: the step that throws
\* (0: page.reload / $$eval, k: the page screenshot at record k), whether the
\* accept steps throw, whether fs.writeFile fails, whether transporter.sendMail
\* fails; at most one of them
NoFault == [failAt |-> NoFail, acceptThrows |-> FALSE, writeFails |-> FALSE,
            mailFails |-> FALSE]

Faults(page) ==
    {NoFault}
    \cup { [NoFault EXCEPT !.failAt = k] : k \in 0..Len(page) }
    \cup { [NoFault EXCEPT !.acceptThrows = TRUE], [NoFault EXCEPT !.writeFails = TRUE],
           [NoFault EXCEPT !.mailFails = TRUE] }

\* an iteration that runs no cycle can only meet a failing write
IdleFaults == { NoFault, [NoFault EXCEPT !.writeFails = TRUE] }

\* a step can only fail when it is taken
Happens(f, file, cycle) ==
    /\ f.writeFails => (file.kind # "ledger" \/ cycle.writes)
    /\ f.acceptThrows => cycle.accepting
    /\ f.mailFails => cycle.sent # <<>>
    /\ f.failAt # NoFail => cycle.aborted

\* a window test that shuts the window at its end instant
OutsideWindowHalfOpen(c, t) ==
    t < getWindowTimes(c, t).start \/ t >= getWindowTimes(c, t).end

\* now < todayWindow.start || now > todayWindow.end
OutsideWindow(c, t) ==
    t < getWindowTimes(c, t).start \/ t > getWindowTimes(c, t).end

\* a wake-up that forgets to move to the next day
TodayStart(c, t) == getWindowTimes(c, t).start

\* a wake-up at the current instant: a sleep of no duration
TomorrowStartNow(c, t) == t

\* tomorrow.setDate(now.getDate() + 1); getWindowTimes(tomorrow).start
TomorrowStart(c, t) == getWindowTimes(c, t + DAY).start

\* noon.setHours(12, 0, 0, 0)
Noon(t) == SetHours(t, 12, 0)

\* a quota test that lets the count reach the limit
QuotaExceeded(c, matches) == Len(matches) > c.DAILY_LIMIT

\* a quota test that takes a limit of 0 for "no limit"
QuotaExhaustedPositive(c, matches) ==
    c.DAILY_LIMIT > 0 /\ Len(matches) >= c.DAILY_LIMIT

\* todaysMatches.length >= DAILY_LIMIT
QuotaExhausted(c, matches) == Len(matches) >= c.DAILY_LIMIT

\* todaysMatches.length === MORNING_LIMIT
MorningCount(c, matches) == Len(matches) = c.MORNING_LIMIT

\* firstMatchTime < noon && now < noon, firstMatchTime from todaysMatches[0]
MorningPause(c, matches, t) ==
    /\ MorningCount(c, matches)
    /\ Len(matches) > 0
    /\ DateParse(matches[1].matchedOn) < Noon(t)
    /\ t < Noon(t)

\* the notification counters after the calls in out
RECURSIVE Count(_, _, _)
Count(counts, out, withElapsed) ==
    IF out = <<>> THEN counts
    ELSE LET n == Head(out)
             hit == (n.elapsedTime # <<>>) = withElapsed
             next == IF hit /\ counts[n.id] < MaxSent
                     THEN [counts EXCEPT ![n.id] = @ + 1] ELSE counts
         IN  Count(next, Tail(out), withElapsed)

\* the loop wakes at instant t: the clock never runs backwards, and a process
\* that has just started has no sleep pending
Wakes(t) == running /\ pc = "loop" /\ (tickKind = "Start" \/ t >= wakeAt) /\ t >= now

\* lines 863-881: outside the window the browser is closed and the loop sleeps
TickOutsideWindow(t, f) ==
    LET load == initializeCache(store, f.writeFails)
        todayWindow == getWindowTimes(cfg, t)
    IN  /\ Wakes(t) /\ Shaped(store)
        /\ f.writeFails => store.kind # "ledger"
        /\ OutsideWindow(cfg, t)
        /\ store' = load.file
        /\ loaded' = load.matchedLeads
        /\ cache' = load.matchedLeads
        /\ now' = t
        /\ browser' = FALSE
        /\ wakeAt' = IF t > todayWindow.end THEN TomorrowStart(cfg, t)
                     ELSE todayWindow.start
        /\ tickKind' = "OutsideWindow"
        /\ leadsOnPage' = <<>>
        /\ sent' = <<>>
        /\ faults' = f
        /\ saved' = FALSE
        /\ UNCHANGED <<scraperVars, cfg, running, newSent, transSent, pc, inFlight>>

\* lines 908-916: the daily limit is reached, sleep until tomorrow's window
TickQuotaExhausted(t, f) ==
    LET load == initializeCache(store, f.writeFails)
        matches == getTodaysMatches(load.matchedLeads, t)
    IN  /\ Wakes(t) /\ Shaped(store)
        /\ f.writeFails => store.kind # "ledger"
        /\ ~OutsideWindow(cfg, t)
        /\ QuotaExhausted(cfg, matches)
        /\ store' = load.file
        /\ loaded' = load.matchedLeads
        /\ cache' = load.matchedLeads
        /\ now' = t
        /\ browser' = TRUE
        /\ wakeAt' = TomorrowStart(cfg, t)
        /\ tickKind' = "QuotaExhausted"
        /\ leadsOnPage' = <<>>
        /\ sent' = <<>>
        /\ faults' = f
        /\ saved' = FALSE
        /\ UNCHANGED <<scraperVars, cfg, running, newSent, transSent, pc, inFlight>>

\* lines 918-928: the morning limit is met before noon, sleep until noon
TickMorningPause(t, f) ==
    LET load == initializeCache(store, f.writeFails)
        matches == getTodaysMatches(load.matchedLeads, t)
    IN  /\ Wakes(t) /\ Shaped(store)
        /\ f.writeFails => store.kind # "ledger"
        /\ ~OutsideWindow(cfg, t)
        /\ ~QuotaExhausted(cfg, matches)
        /\ MorningPause(cfg, matches, t)
        /\ store' = load.file
        /\ loaded' = load.matchedLeads
        /\ cache' = load.matchedLeads
        /\ now' = t
        /\ browser' = TRUE
        /\ wakeAt' = Noon(t)
        /\ tickKind' = "MorningPause"
        /\ leadsOnPage' = <<>>
        /\ sent' = <<>>
        /\ faults' = f
        /\ saved' = FALSE
        /\ UNCHANGED <<scraperVars, cfg, running, newSent, transSent, pc, inFlight>>

\* line 919 with no match today: todaysMatches[0] is undefined, the TypeError
\* leaves the loop through catch/finally (lines 936-943)
TickTypeError(t, f) ==
    LET load == initializeCache(store, f.writeFails)
        matches == getTodaysMatches(load.matchedLeads, t)
    IN  /\ Wakes(t) /\ Shaped(store)
        /\ f.writeFails => store.kind # "ledger"
        /\ ~OutsideWindow(cfg, t)
        /\ ~QuotaExhausted(cfg, matches)
        /\ MorningCount(cfg, matches)
        /\ Len(matches) = 0
        /\ store' = load.file
        /\ loaded' = load.matchedLeads
        /\ cache' = load.matchedLeads
        /\ now' = t
        /\ browser' = FALSE
        /\ running' = FALSE
        /\ wakeAt' = t
        /\ tickKind' = "TypeError"
        /\ leadsOnPage' = <<>>
        /\ sent' = <<>>
        /\ faults' = f
        /\ saved' = FALSE
        /\ UNCHANGED <<scraperVars, cfg, newSent, transSent, pc, inFlight>>

\* line 860 on a file of the wrong shape: cache.matchedLeads is not an array
\* (or cache is null), getTodaysMatches throws a TypeError and the loop is
\* left through catch/finally (lines 936-943)
TickShapeError(t) ==
    /\ Wakes(t) /\ ~Shaped(store)
    /\ loaded' = <<>>
    /\ cache' = <<>>
    /\ now' = t
    /\ browser' = FALSE
    /\ running' = FALSE
    /\ wakeAt' = t
    /\ tickKind' = "ShapeError"
    /\ leadsOnPage' = <<>>
    /\ sent' = <<>>
    /\ faults' = NoFault
    /\ saved' = FALSE
    /\ UNCHANGED <<scraperVars, cfg, store, newSent, transSent, pc, inFlight>>

\* the checks of lines 863, 908 and 918-922 all let the iteration through
Active(c, matches, t) ==
    /\ ~OutsideWindow(c, t)
    /\ ~QuotaExhausted(c, matches)
    /\ ~MorningCount(c, matches) \/ (Len(matches) > 0 /\ ~MorningPause(c, matches, t))

\* lines 930-934: a scrape cycle, then the pause between cycles
TickActive(t, page, f) ==
    /\ Wakes(t) /\ Shaped(store)
    /\ f.failAt = 0 => page = <<>>
    /\ \E load \in {initializeCache(store, f.writeFails)} :
       \E matches \in {getTodaysMatches(load.matchedLeads, t)} :
        /\ Active(cfg, matches, t)
        /\ \E cycle \in {performScrapeCycle(cfg, load.file, load.matchedLeads, page, t, f)} :
            /\ Happens(f, store, cycle)
            /\ store' = cycle.file
            /\ loaded' = load.matchedLeads
            /\ cache' = cycle.matchedLeads
            /\ now' = t
            /\ browser' = TRUE
            /\ wakeAt' = t + CHECK_INTERVAL_MS
            /\ tickKind' = "Active"
            /\ leadsOnPage' = cycle.leadsOnPage
            /\ sent' = cycle.sent
            /\ newSent' = Count(newSent, cycle.sent, FALSE)
            /\ transSent' = Count(transSent, cycle.sent, TRUE)
            /\ faults' = f
            /\ saved' = cycle.writes
            /\ UNCHANGED <<scraperVars, cfg, running, pc, inFlight>>

----------------------------------------------------------------------------
(* The specification *)

\* the instant of that run's match
YesterdayScan == 9 * HOUR - DAY

\* the ledger a run of the day before leaves: one lead, matched at 09:00
Yesterday ==
    NewLead([matchedLeads |-> <<>>, sent |-> <<>>, cacheUpdated |-> FALSE,
             aborted |-> FALSE, accepting |-> FALSE],
            ScrapeArticle([id |-> "x", waitlist |-> FALSE, text |-> <<"A", "b">>],
                          << <<"a", "b">> >>, "each"),
            YesterdayScan, FALSE).matchedLeads

\* the files the scraper may find at start-up
StartFiles == { [kind |-> "absent", matchedLeads |-> <<>>],
                [kind |-> "empty", matchedLeads |-> <<>>],
                [kind |-> "malformed", matchedLeads |-> <<>>],
                [kind |-> "ledger", matchedLeads |-> Yesterday] }

----------------------------------------------------------------------------
(* The interval-driven scraper (src/index.js, lines 299-614): startScraper
   loads the accepted titles, runs intervalJob once and then hands it to
   setInterval; every job works on the one page of the one browser.  A job
   stands at an await; what lies between two awaits is one step. *)

\* the titles (<h2> text) of the leads the site shows
Titles == {"x", "y"}

\* an article without an 'Accept' link: page.evaluate returns null (line 462)
NoAccept == "-"

LeadArticles == Titles \cup {NoAccept}

\* the runs of intervalJob, numbered by runCount (line 568)
Runs == 1..MaxRuns

\* no data-scraper-click attribute
NoTag == <<0, 0>>

\* no lead chosen
NoLead == "none"

\* the documents a navigation may bring: no article, a lead after an
\* article without a link, two leads, two leads of one title
LeadsPages == { <<>>, <<NoAccept, "x">>, <<"x", "y">>, <<"x", "x">> }

\* a freshly loaded document: no link carries a data-scraper-click attribute
Document(articles) ==
    [articles |-> articles, tags |-> [i \in 1..Len(articles) |-> NoTag]]

\* leads.json as JSON.stringify(titlesArray) writes it (line 366)
ArrayFile(titles) == [kind |-> "array", titles |-> titles]

\* the cache files startScraper may find: none, text that does not parse,
\* the array an earlier run saved
CacheFiles ==
    { [kind |-> k, titles |-> {}] : k \in {"absent", "malformed"} }
    \cup { ArrayFile({"y"}) }

\* loadAcceptedLeads(), lines 336-356: the Set, and the file afterwards
loadAcceptedLeads(file) ==
    [titles |-> IF file.kind = "array" THEN file.titles ELSE {},
     file |-> IF file.kind = "malformed" THEN ArrayFile({}) ELSE file]

\* saveAcceptedLeads(), lines 362-371: the file afterwards; errors are logged
saveAcceptedLeads(file, titles, writeFails) ==
    IF writeFails THEN file ELSE ArrayFile(titles)

IsCachedNever(titles, title) == FALSE

\* line 476: acceptedLeadTitles.has(leadInfo.title)
IsCached(titles, title) == title \in titles

AcceptFailedRetry(titles, title) == titles \ {title}

\* lines 532-536: the catch of a failed accept leaves the Set as it is
AcceptFailed(titles, title) == titles

\* a run of intervalJob that has not begun
IdleJob ==
    [pc |-> "idle", handles |-> <<>>, fresh |-> FALSE, i |-> 0,
     leadsToClick |-> <<>>, link |-> "none", lead |-> NoLead,
     acceptedCount |-> 0, clicked |-> 0, wrote |-> FALSE]

\* a run that is over: the handles and the lead are gone; whether it
\* clicked and wrote and what it returned (acceptedCount) is kept
Finished(job) ==
    [job EXCEPT !.pc = "done", !.handles = <<>>, !.fresh = FALSE, !.i = 0,
                !.leadsToClick = <<>>, !.link = "none", !.lead = NoLead]

\* a navigation of the page detaches the element handles a job holds
Detached(job) ==
    [job EXCEPT !.fresh = FALSE, !.link = IF @ = "fresh" THEN "stale" ELSE @]

\* job j goes on as `job`; the others stay where they are
Goes(j, job) == jobs' = [jobs EXCEPT ![j] = job]

\* page.reload / page.goto by job j: a new document
Navigates(j, job, articles) ==
    /\ document' = Document(articles)
    /\ jobs' = [k \in Runs |-> IF k = j THEN job ELSE Detached(jobs[k])]

\* the scraper is not in use
ScraperOff ==
    /\ acceptedLeadTitles = {}
    /\ leadsFile = [kind |-> "absent", titles |-> {}]
    /\ document = Document(<<>>)
    /\ jobs = [j \in Runs |-> IdleJob]
    /\ runCount = 0
    /\ scraperInterval = "undefined"
    /\ launched = FALSE
    /\ clicks = [t \in Titles |-> 0]
    /\ phase = "load"

\* the window/quota loop of the other script is not in use
MainOff ==
    /\ cfg = CHOOSE c \in Configs : c.DAILY_LIMIT = 0
    /\ store = [kind |-> "absent", matchedLeads |-> <<>>]
    /\ loaded = <<>>
    /\ cache = <<>>
    /\ now = 0
    /\ wakeAt = 0
    /\ browser = FALSE
    /\ running = FALSE
    /\ tickKind = "Start"
    /\ leadsOnPage = <<>>
    /\ sent = <<>>
    /\ newSent = [i \in Ids |-> 0]
    /\ transSent = [i \in Ids |-> 0]
    /\ faults = NoFault
    /\ saved = FALSE
    /\ pc = "loop"
    /\ inFlight = 0

InitScraper ==
    /\ MainOff
    /\ acceptedLeadTitles = {}
    /\ leadsFile \in CacheFiles
    /\ document = Document(<<>>)
    /\ jobs = [j \in Runs |-> IdleJob]
    /\ runCount = 0
    /\ scraperInterval = "undefined"
    /\ launched = FALSE
    /\ clicks = [t \in Titles |-> 0]
    /\ phase = "load"

\* startScraper, lines 545-598: the titles are loaded, the browser is
\* launched, login() opens the leads page and the first intervalJob begins
\* (line 568, up to its page.reload); when launch or login throws, the catch
\* of lines 604-611 saves the titles
StartScraper(launchFails, articles, writeFails) ==
    LET load == loadAcceptedLeads(leadsFile)
    IN  /\ phase = "load"
        /\ acceptedLeadTitles' = load.titles
        /\ IF launchFails
           THEN /\ leadsFile' = saveAcceptedLeads(load.file, load.titles, writeFails)
                /\ phase' = "shutdown"
                /\ UNCHANGED <<document, jobs, runCount, launched>>
           ELSE /\ ~writeFails
                /\ leadsFile' = load.file
                /\ launched' = TRUE
                /\ document' = Document(articles)
                /\ runCount' = 1
                /\ Goes(1, [IdleJob EXCEPT !.pc = "reload"])
                /\ phase' = "first"
        /\ UNCHANGED <<scraperInterval, clicks, mainVars>>

\* lines 598-599: the awaited first job is over, setInterval arms the timer
SetInterval ==
    /\ phase = "first"
    /\ jobs[1].pc = "done"
    /\ phase' = "interval"
    /\ scraperInterval' = "set"
    /\ UNCHANGED <<acceptedLeadTitles, leadsFile, document, jobs, runCount,
                   launched, clicks, mainVars>>

\* the timer of line 599 fires: intervalJob is called (lines 567-572),
\* whatever the earlier calls are doing
TimerFires ==
    /\ phase = "interval"
    /\ scraperInterval = "set"
    /\ runCount < MaxRuns
    /\ runCount' = runCount + 1
    /\ Goes(runCount + 1, [IdleJob EXCEPT !.pc = "reload"])
    /\ UNCHANGED <<acceptedLeadTitles, leadsFile, document, scraperInterval,
                   launched, clicks, phase, mainVars>>

\* line 572: page.reload resolves
Reload(j, articles) ==
    /\ jobs[j].pc = "reload"
    /\ launched
    /\ Navigates(j, [jobs[j] EXCEPT !.pc = "wait"], articles)
    /\ UNCHANGED <<acceptedLeadTitles, leadsFile, runCount, scraperInterval,
                   launched, clicks, phase, mainVars>>

\* lines 436-442: waitForSelector('article') resolves on the document the
\* page now shows; a timeout or any other error returns 0
WaitForSelector(j) ==
    /\ jobs[j].pc = "wait"
    /\ IF launched /\ Len(document.articles) > 0
       THEN Goes(j, [jobs[j] EXCEPT !.pc = "query"])
       ELSE Goes(j, Finished(jobs[j]))
    /\ UNCHANGED <<acceptedLeadTitles, leadsFile, document, runCount,
                   scraperInterval, launched, clicks, phase, mainVars>>

\* lines 445-454: page.$$('article') resolves
Query(j) ==
    /\ jobs[j].pc = "query"
    /\ launched
    /\ IF Len(document.articles) = 0
       THEN Goes(j, Finished(jobs[j]))
       ELSE Goes(j, [jobs[j] EXCEPT !.pc = "eval", !.handles = document.articles,
                                    !.fresh = TRUE, !.i = 1])
    /\ UNCHANGED <<acceptedLeadTitles, leadsFile, document, runCount,
                   scraperInterval, launched, clicks, phase, mainVars>>

\* lines 457-504: page.evaluate of article i resolves: the link of a live
\* element is tagged, a title that is not cached is pushed; after the last
\* article the first lead pushed is chosen and its title is added to the Set
\* (lines 485-500), up to the await of page.$
Evaluate(j) ==
    LET job == jobs[j]
        article == job.handles[job.i]
        tempId == <<j, job.i>>
        pushed == IF article # NoAccept /\ ~IsCached(acceptedLeadTitles, article)
                  THEN Append(job.leadsToClick, [title |-> article, tempId |-> tempId])
                  ELSE job.leadsToClick
    IN  /\ job.pc = "eval"
        /\ launched
        /\ document' = IF job.fresh /\ article # NoAccept
                   THEN [document EXCEPT !.tags[job.i] = tempId]
                   ELSE document
        /\ IF job.i < Len(job.handles)
           THEN /\ Goes(j, [job EXCEPT !.i = job.i + 1, !.leadsToClick = pushed])
                /\ UNCHANGED acceptedLeadTitles
           ELSE IF pushed = <<>>
           THEN /\ Goes(j, Finished(job))
                /\ UNCHANGED acceptedLeadTitles
           ELSE /\ acceptedLeadTitles' = acceptedLeadTitles \cup {pushed[1].title}
                /\ Goes(j, [job EXCEPT !.pc = "select", !.leadsToClick = pushed,
                                       !.lead = pushed[1].title])
        /\ UNCHANGED <<leadsFile, runCount, scraperInterval, launched, clicks,
                       phase, mainVars>>

\* lines 504-508: page.$(selector) resolves: the element of the document
\* that carries this job's attribute, or null (return acceptedCount, line
\* 539); with a handle sendNotificationEmail is awaited, which never throws
Select(j) ==
    LET job == jobs[j]
        found == \E i \in DOMAIN document.tags : document.tags[i] = job.leadsToClick[1].tempId
    IN  /\ job.pc = "select"
        /\ launched
        /\ IF found
           THEN Goes(j, [job EXCEPT !.pc = "click", !.link = "fresh"])
           ELSE Goes(j, Finished(job))
        /\ UNCHANGED <<acceptedLeadTitles, leadsFile, document, runCount,
                       scraperInterval, launched, clicks, phase, mainVars>>

\* line 509: acceptLinkHandle.click() on an attached element
Click(j) ==
    LET job == jobs[j]
    IN  /\ job.pc = "click"
        /\ launched
        /\ job.link = "fresh"
        /\ clicks' = [clicks EXCEPT ![job.lead] = @ + 1]
        /\ Goes(j, [job EXCEPT !.pc = "confirm", !.clicked = @ + 1])
        /\ UNCHANGED <<acceptedLeadTitles, leadsFile, document, runCount,
                       scraperInterval, launched, phase, mainVars>>

\* lines 510-523: the screenshots, the two Enter keys and the sleeps
Confirm(j) ==
    /\ jobs[j].pc = "confirm"
    /\ launched
    /\ Goes(j, [jobs[j] EXCEPT !.pc = "save"])
    /\ UNCHANGED <<acceptedLeadTitles, leadsFile, document, runCount,
                   scraperInterval, launched, clicks, phase, mainVars>>

\* lines 526-530: the persistence point, and acceptedCount++
Save(j, writeFails) ==
    /\ jobs[j].pc = "save"
    /\ leadsFile' = saveAcceptedLeads(leadsFile, acceptedLeadTitles, writeFails)
    /\ Goes(j, [jobs[j] EXCEPT !.pc = "goto", !.wrote = TRUE, !.acceptedCount = @ + 1])
    /\ UNCHANGED <<acceptedLeadTitles, document, runCount, scraperInterval,
                   launched, clicks, phase, mainVars>>

\* line 531 and line 539: page.goto(LEADS_URL), and the count is returned
Goto(j, articles) ==
    /\ jobs[j].pc = "goto"
    /\ launched
    /\ Navigates(j, [jobs[j] EXCEPT !.pc = "back"], articles)
    /\ UNCHANGED <<acceptedLeadTitles, leadsFile, runCount, scraperInterval,
                   launched, clicks, phase, mainVars>>

\* lines 577-582: a cycle that accepted a lead goes back to the leads document
Back(j, articles) ==
    /\ jobs[j].pc = "back"
    /\ launched
    /\ Navigates(j, Finished(jobs[j]), articles)
    /\ UNCHANGED <<acceptedLeadTitles, leadsFile, runCount, scraperInterval,
                   launched, clicks, phase, mainVars>>

\* lines 532-539: click, a screenshot, a key press or the goto of line 531
\* throws: the catch logs it and acceptedCount is returned
AcceptFails(j) ==
    LET job == jobs[j]
    IN  /\ job.pc \in {"click", "confirm", "goto"}
        /\ acceptedLeadTitles' = AcceptFailed(acceptedLeadTitles, job.lead)
        /\ IF job.acceptedCount > 0
           THEN Goes(j, [job EXCEPT !.pc = "back"])
           ELSE Goes(j, Finished(job))
        /\ UNCHANGED <<leadsFile, document, runCount, scraperInterval, launched,
                       clicks, phase, mainVars>>

\* what the catch of intervalJob does (lines 583-595): it only logs; it logs
\* in again; the re-login fails, the timer is cleared and the browser closed;
\* browser.close() throws out of the awaited first job into the catch of
\* startScraper (lines 604-611)
Outcomes == {"logged", "relogin", "stopped", "critical"}

\* lines 583-595: page.reload, page.$$, page.evaluate, page.$ or the goto of
\* line 579 throws out of the try of intervalJob
Throws(j, outcome, articles, writeFails) ==
    LET job == Finished(jobs[j])
    IN  /\ jobs[j].pc \in {"reload", "query", "eval", "select", "back"}
        /\ writeFails => outcome = "critical"
        /\ CASE outcome = "logged" ->
                  /\ articles = <<>>
                  /\ Goes(j, job)
                  /\ UNCHANGED <<leadsFile, document, scraperInterval, launched, phase>>
             [] outcome = "relogin" ->
                  /\ launched
                  /\ Navigates(j, job, articles)
                  /\ UNCHANGED <<leadsFile, scraperInterval, launched, phase>>
             [] outcome = "stopped" ->
                  /\ articles = <<>>
                  /\ Goes(j, job)
                  /\ scraperInterval' = IF scraperInterval = "set" THEN "cleared"
                                        ELSE scraperInterval
                  /\ launched' = FALSE
                  /\ UNCHANGED <<leadsFile, document, phase>>
             [] outcome = "critical" ->
                  /\ articles = <<>>
                  /\ phase = "first"
                  /\ Goes(j, job)
                  /\ launched' = FALSE
                  /\ leadsFile' = saveAcceptedLeads(leadsFile, acceptedLeadTitles, writeFails)
                  /\ phase' = "shutdown"
                  /\ UNCHANGED <<document, scraperInterval>>
        /\ UNCHANGED <<acceptedLeadTitles, runCount, clicks, mainVars>>

NextScraper ==
    \/ \E launchFails, writeFails \in BOOLEAN, articles \in LeadsPages :
          StartScraper(launchFails, articles, writeFails)
    \/ SetInterval
    \/ TimerFires
    \/ \E j \in Runs, articles \in LeadsPages : Reload(j, articles)
    \/ \E j \in Runs : WaitForSelector(j)
    \/ \E j \in Runs : Query(j)
    \/ \E j \in Runs : Evaluate(j)
    \/ \E j \in Runs : Select(j)
    \/ \E j \in Runs : Click(j)
    \/ \E j \in Runs : Confirm(j)
    \/ \E j \in Runs, writeFails \in BOOLEAN : Save(j, writeFails)
    \/ \E j \in Runs, articles \in LeadsPages : Goto(j, articles)
    \/ \E j \in Runs, articles \in LeadsPages : Back(j, articles)
    \/ \E j \in Runs : AcceptFails(j)
    \/ \E j \in Runs, outcome \in Outcomes, articles \in LeadsPages, writeFails \in BOOLEAN :
          Throws(j, outcome, articles, writeFails)

SpecScraper == InitScraper /\ [][NextScraper]_vars

----------------------------------------------------------------------------
(* The window/quota loop from its start *)

Init ==
    /\ cfg \in Configs
    /\ store \in StartFiles
    /\ loaded = <<>>
    /\ cache = <<>>
    /\ now = 0
    /\ wakeAt = 0
    /\ browser = FALSE
    /\ running = TRUE
    /\ tickKind = "Start"
    /\ leadsOnPage = <<>>
    /\ sent = <<>>
    /\ newSent = [i \in Ids |-> 0]
    /\ transSent = [i \in Ids |-> 0]
    /\ faults = NoFault
    /\ saved = FALSE
    /\ pc = "loop"
    /\ inFlight = 0
    /\ ScraperOff

\* one iteration of the loop, at an instant t of I; the page is one of
\* PagesAt(t) when `long`, of at most one article otherwise
Tick(I, long) ==
    \/ \E t \in I, f \in IdleFaults : TickOutsideWindow(t, f)
    \/ \E t \in I, f \in IdleFaults : TickQuotaExhausted(t, f)
    \/ \E t \in I, f \in IdleFaults : TickMorningPause(t, f)
    \/ \E t \in I, f \in IdleFaults : TickTypeError(t, f)
    \/ \E t \in I :
         /\ Wakes(t) /\ Shaped(store)
         /\ Active(cfg, getTodaysMatches(initializeCache(store, FALSE).matchedLeads, t), t)
         /\ \E page \in (IF long THEN PagesAt(t) ELSE ShortPages) : \E f \in Faults(page) : TickActive(t, page, f)

\* the lead lifecycle: pages of up to MaxPage articles over one morning
Next == Tick(Instants, TRUE)
Spec == Init /\ [][Next]_vars

\* the scheduler: pages of at most one article over Days days
NextClock == Tick(ClockInstants, FALSE)
SpecClock == Init /\ [][NextClock]_vars

----------------------------------------------------------------------------
(* The loop at the grain of its awaits: the call of performScrapeCycle and
   its return are two steps *)

\* the most calls of performScrapeCycle the model lets be in flight
MaxInFlight == 2

\* a call that is not awaited: main goes on with its loop
CycleNotAwaited == "loop"

\* line 931: `await performScrapeCycle(page, cache)` suspends main
CycleAwaited == "await"

\* lines 858-931: the ledger is loaded, the checks let the iteration through
\* and performScrapeCycle is called
BeginCycle(t, f) ==
    LET load == initializeCache(store, f.writeFails)
        matches == getTodaysMatches(load.matchedLeads, t)
    IN  /\ Wakes(t) /\ Shaped(store)
        /\ inFlight < MaxInFlight
        /\ f.writeFails => store.kind # "ledger"
        /\ Active(cfg, matches, t)
        /\ store' = load.file
        /\ loaded' = load.matchedLeads
        /\ cache' = load.matchedLeads
        /\ now' = t
        /\ browser' = TRUE
        /\ tickKind' = "Cycle"
        /\ leadsOnPage' = <<>>
        /\ sent' = <<>>
        /\ faults' = f
        /\ saved' = FALSE
        /\ pc' = CycleAwaited
        /\ inFlight' = inFlight + 1
        /\ UNCHANGED <<scraperVars, cfg, running, wakeAt, newSent, transSent>>

\* lines 634-839 and 933-934: the cycle runs on the ledger it was given,
\* returns, and main sleeps CHECK_INTERVAL_MS
EndCycle(page, f) ==
    /\ inFlight > 0
    /\ f.failAt = 0 => page = <<>>
    /\ \E cycle \in {performScrapeCycle(cfg, store, cache, page, now, f)} :
        /\ Happens(f, store, cycle)
        /\ f.writeFails => cycle.writes
        /\ store' = cycle.file
        /\ cache' = cycle.matchedLeads
        /\ wakeAt' = now + CHECK_INTERVAL_MS
        /\ tickKind' = "Active"
        /\ leadsOnPage' = cycle.leadsOnPage
        /\ sent' = cycle.sent
        /\ newSent' = Count(newSent, cycle.sent, FALSE)
        /\ transSent' = Count(transSent, cycle.sent, TRUE)
        /\ faults' = f
        /\ saved' = cycle.writes
        /\ pc' = "loop"
        /\ inFlight' = inFlight - 1
        /\ UNCHANGED <<scraperVars, cfg, loaded, now, browser, running>>

NextSteps ==
    \/ \E t \in Instants, f \in IdleFaults : TickOutsideWindow(t, f)
    \/ \E t \in Instants, f \in IdleFaults : TickQuotaExhausted(t, f)
    \/ \E t \in Instants, f \in IdleFaults : TickMorningPause(t, f)
    \/ \E t \in Instants, f \in IdleFaults : TickTypeError(t, f)
    \/ \E t \in Instants, f \in IdleFaults : BeginCycle(t, f)
    \/ \E page \in PagesAt(now) : \E f \in Faults(page) : EndCycle(page, f)

SpecSteps == Init /\ [][NextSteps]_vars

----------------------------------------------------------------------------
(* The process is stopped and started again: main begins anew on the file
   the earlier run left, whatever sleep was pending *)

Restart ==
    /\ tickKind # "Start"
    /\ loaded' = <<>>
    /\ cache' = <<>>
    /\ browser' = FALSE
    /\ running' = TRUE
    /\ tickKind' = "Start"
    /\ leadsOnPage' = <<>>
    /\ sent' = <<>>
    /\ faults' = NoFault
    /\ saved' = FALSE
    /\ pc' = "loop"
    /\ inFlight' = 0
    /\ UNCHANGED <<scraperVars, cfg, store, now, wakeAt, newSent, transSent>>

NextRestart == Tick(Instants, FALSE) \/ Restart
SpecRestart == Init /\ [][NextRestart]_vars

----------------------------------------------------------------------------
(* The daily count on its own: getTodaysMatches on ledgers whose leads were
   matched around the midnights of two days, before and after a transition *)

\* the instants leads are matched at: the last second of a day, midnight,
\* the morning, the last instants of the next day, the midnight after
LeadTimes == { DAY - SECOND, DAY, DAY + 9 * HOUR, 2 * DAY - 100, 2 * DAY }

\* the instants the count is taken at
CountInstants == { DAY - SECOND, DAY, DAY + 12 * HOUR, 2 * DAY - 100, 2 * DAY }

\* the accumulator performScrapeCycle starts from, on the ledger matchedLeads
CycleStart(matchedLeads) ==
    [matchedLeads |-> matchedLeads, sent |-> <<>>, cacheUpdated |-> FALSE,
     aborted |-> FALSE, accepting |-> FALSE]

\* the lead a cycle at instant t creates from a matching article
MadeLead(id, waitlist, t) ==
    NewLead(CycleStart(<<>>),
            ScrapeArticle([id |-> id, waitlist |-> waitlist, text |-> <<"A", "b">>],
                          << <<"a", "b">> >>, "each"),
            t, FALSE).matchedLeads[1]

\* the leads a ledger can hold for an id: as created, or transitioned later
LeadsFor(id) ==
    { MadeLead(id, w, t) : w \in BOOLEAN, t \in LeadTimes }
    \cup { Transition(CycleStart(<<MadeLead(id, FALSE, t)>>), 1, t + HOUR).matchedLeads[1] :
             t \in LeadTimes }

\* ledgers of up to two leads, the newest first as unshift keeps them
CountLedgers ==
    {<<>>} \cup { <<l>> : l \in LeadsFor("x") }
    \cup { p \in { <<l, m>> : l \in LeadsFor("y"), m \in LeadsFor("x") } :
             DateParse(p[2].matchedOn) <= DateParse(p[1].matchedOn) }

InitCount ==
    /\ cfg \in { c \in Configs : c.DAILY_LIMIT = 2 /\ c.START_HOUR # c.END_HOUR }
    /\ store \in { [kind |-> "ledger", matchedLeads |-> l] : l \in CountLedgers }
    /\ loaded = <<>>
    /\ cache = <<>>
    /\ now = 0
    /\ wakeAt = 0
    /\ browser = FALSE
    /\ running = TRUE
    /\ tickKind = "Start"
    /\ leadsOnPage = <<>>
    /\ sent = <<>>
    /\ newSent = [i \in Ids |-> 0]
    /\ transSent = [i \in Ids |-> 0]
    /\ faults = NoFault
    /\ saved = FALSE
    /\ pc = "loop"
    /\ inFlight = 0
    /\ ScraperOff

\* lines 857-860: the ledger is loaded and today's matches are taken from it
CountAt(t) ==
    /\ t >= now
    /\ tickKind # "Transitioned"
    /\ loaded' = initializeCache(store, FALSE).matchedLeads
    /\ cache' = getTodaysMatches(initializeCache(store, FALSE).matchedLeads, t)
    /\ now' = t
    /\ tickKind' = "Counted"
    /\ UNCHANGED <<scraperVars, cfg, store, wakeAt, browser, running, leadsOnPage, sent,
                   newSent, transSent, faults, saved, pc, inFlight>>

\* lines 808-831 and 857-860: lead i of the ledger transitions and is saved,
\* and today's matches are taken again
TransitionAt(i) ==
    /\ tickKind = "Counted"
    /\ i \in 1..Len(loaded)
    /\ loaded[i].currentStatus = "Potential Lead"
    /\ DateParse(loaded[i].matchedOn) <= now
    /\ \E done \in {Transition(CycleStart(loaded), i, now)} :
          /\ store' = writeCache(store, done.matchedLeads, FALSE)
          /\ sent' = done.sent
          /\ cache' = getTodaysMatches(done.matchedLeads, now)
    /\ tickKind' = "Transitioned"
    /\ UNCHANGED <<scraperVars, cfg, loaded, now, wakeAt, browser, running, leadsOnPage,
                   newSent, transSent, faults, saved, pc, inFlight>>

NextCount == (\E t \in CountInstants : CountAt(t)) \/ (\E i \in 1..2 : TransitionAt(i))
SpecCount == InitCount /\ [][NextCount]_vars

----------------------------------------------------------------------------
(* The scheduler from one day to the next, started on a file that may hold a
   lead matched earlier the same day by a run under another configuration;
   a pending sleep ends, so the loop always takes its next iteration *)

\* the instant of that earlier match
TodayScan == 6 * HOUR

\* the ledger that run leaves: one Potential Lead, matched today
Today == <<MadeLead("x", FALSE, TodayScan)>>

\* before, at the start of, in and after the window of the first day; the
\* start and the noon of the day after
LiveInstants == { 7 * HOUR, 8 * HOUR, 12 * HOUR, 18 * HOUR + SECOND,
                  DAY + 8 * HOUR, DAY + 12 * HOUR }

InitLive ==
    /\ cfg \in Configs
    /\ store \in StartFiles \cup { [kind |-> "ledger", matchedLeads |-> Today] }
    /\ loaded = <<>>
    /\ cache = <<>>
    /\ now = 0
    /\ wakeAt = 0
    /\ browser = FALSE
    /\ running = TRUE
    /\ tickKind = "Start"
    /\ leadsOnPage = <<>>
    /\ sent = <<>>
    /\ newSent = [i \in Ids |-> 0]
    /\ transSent = [i \in Ids |-> 0]
    /\ faults = NoFault
    /\ saved = FALSE
    /\ pc = "loop"
    /\ inFlight = 0
    /\ ScraperOff

NextLive == Tick(LiveInstants, FALSE)
SpecLive == InitLive /\ [][NextLive]_vars /\ WF_vars(NextLive)

----------------------------------------------------------------------------
(* The loop started on a file that may hold JSON of the wrong shape *)

InitShape ==
    /\ cfg \in Configs
    /\ store \in StartFiles \cup { [kind |-> k, matchedLeads |-> <<>>] : k \in WrongShapes }
    /\ loaded = <<>>
    /\ cache = <<>>
    /\ now = 0
    /\ wakeAt = 0
    /\ browser = FALSE
    /\ running = TRUE
    /\ tickKind = "Start"
    /\ leadsOnPage = <<>>
    /\ sent = <<>>
    /\ newSent = [i \in Ids |-> 0]
    /\ transSent = [i \in Ids |-> 0]
    /\ faults = NoFault
    /\ saved = FALSE
    /\ pc = "loop"
    /\ inFlight = 0
    /\ ScraperOff

NextShape == Tick(Instants, FALSE) \/ (\E t \in Instants : TickShapeError(t))
SpecShape == InitShape /\ [][NextShape]_vars

----------------------------------------------------------------------------
(* The keyword matcher on its own: one scan of one article under every
   keyword list and match type the environment can give *)

MaxText == 3
MaxKeywords == 2

\* String.prototype.trim
RECURSIVE trimStart(_)
trimStart(s) == IF s # <<>> /\ Head(s) = " " THEN trimStart(Tail(s)) ELSE s
RECURSIVE trimEnd(_)
trimEnd(s) == IF s # <<>> /\ s[Len(s)] = " " THEN trimEnd(SubSeq(s, 1, Len(s) - 1)) ELSE s
trim(s) == trimEnd(trimStart(s))

\* the pieces KEYWORDS.split(',') can give
RawItems == { <<>>, <<" ">>, <<"a">>, <<"B">>, <<" ", "a", "b">>, <<"c", " ">> }

\* KEYWORDS after split(','); <<>> stands for KEYWORDS unset or empty
RawKeywordLists == UNION { [1..n -> RawItems] : n \in 0..MaxKeywords }

\* the default of `KEYWORDS || 'asbestos'`, one keyword
DefaultKeywords == << <<"a", "b">> >>

\* (KEYWORDS || 'asbestos').split(',').map(k => k.trim().toLowerCase())
\*                         .filter(k => k.length > 0)
KeywordArray(raw) ==
    LET items == IF raw = <<>> THEN DefaultKeywords ELSE raw
        mapped == [i \in 1..Len(items) |-> toLowerCase(trim(items[i]))]
        nonEmpty(k) == Len(k) > 0
    IN  SelectSeq(mapped, nonEmpty)

\* KEYWORD_MATCH_TYPE === 'all' ? 'all' : 'each'
MatchType(env) == IF env = "all" THEN "all" ELSE "each"
MatchTypeEnvs == {"all", "each", "unset"}

MatchConfigs ==
    { [START_HOUR |-> 8, START_MINUTE |-> 0, END_HOUR |-> 18, END_MINUTE |-> 0,
       DAILY_LIMIT |-> 2, MORNING_LIMIT |-> 1,
       KEYWORD_ARRAY |-> KeywordArray(raw), MATCH_TYPE |-> MatchType(env)] :
      raw \in RawKeywordLists, env \in MatchTypeEnvs }

\* the texts of up to MaxText characters, and the articles that carry them
Chars == {"a", "b", "A"}
RichTexts == UNION { [1..n -> Chars] : n \in 0..MaxText }
RichArticles == [id : {"x"}, waitlist : BOOLEAN, text : RichTexts]

InitMatch ==
    /\ cfg \in MatchConfigs
    /\ store = [kind |-> "absent", matchedLeads |-> <<>>]
    /\ loaded = <<>>
    /\ cache = <<>>
    /\ now = 0
    /\ wakeAt = 0
    /\ browser = FALSE
    /\ running = TRUE
    /\ tickKind = "Start"
    /\ leadsOnPage = <<>>
    /\ sent = <<>>
    /\ newSent = [i \in Ids |-> 0]
    /\ transSent = [i \in Ids |-> 0]
    /\ faults = NoFault
    /\ saved = FALSE
    /\ pc = "loop"
    /\ inFlight = 0
    /\ ScraperOff

\* the first scan of the day, on a page of one article
NextMatch == \E article \in RichArticles : TickActive(FirstScan, <<article>>, NoFault)
SpecMatch == InitMatch /\ [][NextMatch]_vars

----------------------------------------------------------------------------
(* Properties: vocabulary *)

\* the ledger as loaded at the tick, as the tick left it, and as the file holds it
Ledgers == <<loaded, cache, store.matchedLeads>>

LedgerIds(l) == { l[i].id : i \in 1..Len(l) }
LeadsOf(l, id) == { i \in 1..Len(l) : l[i].id = id }
Statuses(lead) == [n \in 1..Len(lead.statusHistory) |-> lead.statusHistory[n].new_status]

\* the last tick ran a scrape cycle whose loop went past record k
Processed(k) == tickKind = "Active" /\ k \in 1..Len(leadsOnPage) /\ k < faults.failAt

\* record k is the first record of the page that could create a lead for its id
FirstNew(k) ==
    /\ leadsOnPage[k].id \notin LedgerIds(loaded)
    /\ leadsOnPage[k].status # "null"
    /\ \A m \in 1..(k - 1) :
          leadsOnPage[m].id = leadsOnPage[k].id => leadsOnPage[m].status = "null"

\* the notifications of the last cycle for an id, new-lead or transition
NewLeadMails(id) == { n \in 1..Len(sent) : sent[n].id = id /\ sent[n].elapsedTime = <<>> }
TransitionMails(id) == { n \in 1..Len(sent) : sent[n].id = id /\ sent[n].elapsedTime # <<>> }

\* the instant a lead was created at: the one of the clock that its matchedOn records
CreatedAt(lead) ==
    CHOOSE t \in Instants \cup {YesterdayScan} :
        t \div SECOND = DateParse(lead.matchedOn) \div SECOND

\* Potential Leads of the loaded ledger matched on the day of `now`
TodaysCount ==
    Cardinality({ i \in 1..Len(loaded) :
                    /\ loaded[i].currentStatus = "Potential Lead"
                    /\ DateParse(loaded[i].matchedOn) \div DAY = now \div DAY })

WindowStart == (now \div DAY) * DAY + cfg.START_HOUR * HOUR + cfg.START_MINUTE * MINUTE
WindowEnd == (now \div DAY) * DAY + cfg.END_HOUR * HOUR + cfg.END_MINUTE * MINUTE
NoCycleRan == leadsOnPage = <<>> /\ sent = <<>> /\ cache = loaded

----------------------------------------------------------------------------
(* Properties: the lead lifecycle *)

\* C1: no ledger, in memory or in the file, ever holds two leads with the
\* same id, also after a cycle whose page lists an id twice; a cycle that
\* observes a record whose id the ledger already holds adds no lead: every
\* id the ledger held is still held once, and the ledger grows by at most
\* one lead for each observed id it did not hold.
C1_Deduplication ==
    /\ \A g \in 1..3 : \A i, j \in 1..Len(Ledgers[g]) :
          Ledgers[g][i].id = Ledgers[g][j].id => i = j
    /\ \A id \in LedgerIds(loaded) : Cardinality(LeadsOf(cache, id)) = 1
    /\ Len(cache) - Len(loaded)
          <= Cardinality({ leadsOnPage[k].id : k \in 1..Len(leadsOnPage) } \ LedgerIds(loaded))

\* a cycle whose page lists twice, with a match, an id the ledger already held
C1_Witness ==
    /\ tickKind = "Active"
    /\ faults = NoFault
    /\ \E k, m \in 1..Len(leadsOnPage) :
          /\ k < m
          /\ leadsOnPage[k].id = leadsOnPage[m].id
          /\ leadsOnPage[k].status = "Potential Lead"
          /\ leadsOnPage[m].status = "Potential Lead"
          /\ leadsOnPage[k].id \in LedgerIds(loaded)
          /\ Cardinality(LeadsOf(cache, leadsOnPage[k].id)) = 1

\* C2: across a tick a lead keeps its status, or goes from Potential Lead to
\* Transitioned to Waitlisted in a cycle that observed its id with the
\* Waitlist marker; a lead that is Already Waitlisted or Transitioned never
\* changes status; the statuses a lead has gone through are one of
\* <Potential Lead>, <Already Waitlisted>, <Potential Lead, Transitioned>, so
\* no lead moves into Already Waitlisted after creation; and the file holds
\* the ledger as loaded or as the tick left it once a tick has run, so the
\* same holds from tick to tick.
C2_StatusChanges ==
    /\ \A i \in 1..Len(loaded), j \in 1..Len(cache) :
          loaded[i].id = cache[j].id =>
             \/ cache[j].currentStatus = loaded[i].currentStatus
             \/ /\ loaded[i].currentStatus = "Potential Lead"
                /\ cache[j].currentStatus = "Transitioned to Waitlisted"
                /\ tickKind = "Active"
                /\ \E k \in 1..Len(leadsOnPage) :
                      /\ leadsOnPage[k].id = cache[j].id
                      /\ leadsOnPage[k].status = "Already Waitlisted"
    /\ \A g \in 1..3 : \A i \in 1..Len(Ledgers[g]) :
          /\ Statuses(Ledgers[g][i]) \in
                { <<"Potential Lead">>, <<"Already Waitlisted">>,
                  <<"Potential Lead", "Transitioned to Waitlisted">> }
          /\ Ledgers[g][i].currentStatus
                = Statuses(Ledgers[g][i])[Len(Ledgers[g][i].statusHistory)]
    /\ (tickKind # "Start" /\ store.kind = "ledger") => store.matchedLeads \in {loaded, cache}

\* a cycle observes, with the Waitlist marker, a lead that had already
\* transitioned: its status stays
C2_Witness ==
    /\ tickKind = "Active"
    /\ \E i \in 1..Len(loaded), j \in 1..Len(cache), k \in 1..Len(leadsOnPage) :
          /\ loaded[i].id = cache[j].id
          /\ leadsOnPage[k].id = cache[j].id
          /\ leadsOnPage[k].status = "Already Waitlisted"
          /\ Processed(k)
          /\ loaded[i].currentStatus = "Transitioned to Waitlisted"
          /\ cache[j].currentStatus = "Transitioned to Waitlisted"

\* C3: every lead of every ledger has a status history of one or two
\* entries; the first entry carries matchedOn and the status the lead was
\* created with (the status of the record that created it), the last entry
\* carries currentStatus, timestamps never decrease along the history, and
\* across a tick the history of a lead only grows at its end.
C3_StatusHistory ==
    /\ \A g \in 1..3 : \A i \in 1..Len(Ledgers[g]) :
          LET lead == Ledgers[g][i]
              h == lead.statusHistory
          IN  /\ Len(h) \in {1, 2}
              /\ h[1].datetime_changed = lead.matchedOn
              /\ h[1].new_status \in {"Potential Lead", "Already Waitlisted"}
              /\ h[Len(h)].new_status = lead.currentStatus
              /\ \A n \in 1..(Len(h) - 1) :
                    DateParse(h[n].datetime_changed) <= DateParse(h[n + 1].datetime_changed)
    /\ \A i \in 1..Len(loaded), j \in 1..Len(cache) :
          loaded[i].id = cache[j].id =>
             /\ cache[j].matchedOn = loaded[i].matchedOn
             /\ Len(loaded[i].statusHistory) <= Len(cache[j].statusHistory)
             /\ SubSeq(cache[j].statusHistory, 1, Len(loaded[i].statusHistory))
                   = loaded[i].statusHistory
    /\ \A j \in 1..Len(cache) :
          cache[j].id \notin LedgerIds(loaded) =>
             \E k \in 1..Len(leadsOnPage) :
                /\ FirstNew(k)
                /\ leadsOnPage[k].id = cache[j].id
                /\ leadsOnPage[k].status = cache[j].statusHistory[1].new_status

\* a cycle has just appended the second entry to the history of a lead
C3_Witness ==
    /\ tickKind = "Active"
    /\ \E i \in 1..Len(loaded), j \in 1..Len(cache) :
          /\ loaded[i].id = cache[j].id
          /\ Len(loaded[i].statusHistory) = 1
          /\ Len(cache[j].statusHistory) = 2
          /\ DateParse(cache[j].statusHistory[2].datetime_changed) = now

\* C4: when a cycle that is not cut short observes, with the Waitlist
\* marker, a lead that was created as Potential Lead at instant T0, then
\* after the cycle, at instant T1, the lead is Transitioned to Waitlisted,
\* its history has gained exactly the entry (T1, Transitioned to Waitlisted),
\* and exactly one transition notification was sent for it, carrying the
\* formatted duration T1 - T0.
C4_TransitionElapsed ==
    (tickKind = "Active" /\ faults.failAt = NoFail) =>
       \A i \in 1..Len(loaded) :
          ( /\ loaded[i].currentStatus = "Potential Lead"
            /\ \E k \in 1..Len(leadsOnPage) :
                  /\ leadsOnPage[k].id = loaded[i].id
                  /\ leadsOnPage[k].status = "Already Waitlisted" )
          => \E j \in 1..Len(cache) :
                /\ cache[j].id = loaded[i].id
                /\ cache[j].currentStatus = "Transitioned to Waitlisted"
                /\ Len(cache[j].statusHistory) = Len(loaded[i].statusHistory) + 1
                /\ SubSeq(cache[j].statusHistory, 1, Len(loaded[i].statusHistory))
                      = loaded[i].statusHistory
                /\ LET last == cache[j].statusHistory[Len(cache[j].statusHistory)]
                   IN  /\ DateParse(last.datetime_changed) = now
                       /\ last.new_status = "Transitioned to Waitlisted"
                /\ Cardinality(TransitionMails(loaded[i].id)) = 1
                /\ \A n \in TransitionMails(loaded[i].id) :
                      sent[n].elapsedTime = formatElapsedTime(now - CreatedAt(loaded[i]))

\* C5: when a cycle that is not cut short observes a record that carries
\* the Waitlist marker and whose id the ledger does not hold, the ledger
\* afterwards holds a lead for that id created as Already Waitlisted, and a
\* new-lead notification (one without elapsed time) was sent for it in that
\* cycle.
C5_NewWaitlistedNotified ==
    (tickKind = "Active" /\ faults.failAt = NoFail) =>
       \A k \in 1..Len(leadsOnPage) :
          (FirstNew(k) /\ leadsOnPage[k].status = "Already Waitlisted")
          => /\ \E j \in 1..Len(cache) :
                   /\ cache[j].id = leadsOnPage[k].id
                   /\ cache[j].statusHistory[1].new_status = "Already Waitlisted"
             /\ NewLeadMails(leadsOnPage[k].id) # {}

\* C6: when the loop of a cycle goes past a record that has no Waitlist
\* marker, matches the keywords and whose id the ledger does not hold, the
\* ledger afterwards holds a lead for that id created as Potential Lead,
\* placed in front of every lead the ledger held before (only leads created
\* later in the same cycle stand before it), and exactly one new-lead
\* notification was sent for it in that cycle, also when the accept steps
\* that follow the insertion throw or the write of the file fails.
C6_NewPotentialLead ==
    \A k \in 1..Len(leadsOnPage) :
       (Processed(k) /\ FirstNew(k) /\ leadsOnPage[k].status = "Potential Lead")
       => /\ \E j \in 1..Len(cache) :
                /\ cache[j].id = leadsOnPage[k].id
                /\ cache[j].statusHistory[1].new_status = "Potential Lead"
                /\ \A i \in 1..(j - 1) :
                      /\ cache[i].id \notin LedgerIds(loaded)
                      /\ \E m \in (k + 1)..Len(leadsOnPage) : leadsOnPage[m].id = cache[i].id
          /\ Cardinality(NewLeadMails(leadsOnPage[k].id)) = 1

\* a new Potential Lead whose accept steps threw: it is in the ledger and
\* its notification went out
C6_Witness ==
    /\ faults.acceptThrows
    /\ \E k \in 1..Len(leadsOnPage) :
          /\ Processed(k)
          /\ FirstNew(k)
          /\ leadsOnPage[k].status = "Potential Lead"
          /\ cache[1].id = leadsOnPage[k].id
          /\ Cardinality(NewLeadMails(leadsOnPage[k].id)) = 1

\* C7: over all the ticks of the loop, at most one new-lead notification and
\* at most one transition notification is ever sent for a lead id.
C7_AtMostOneNotification ==
    \A id \in Ids : newSent[id] <= 1 /\ transSent[id] <= 1

----------------------------------------------------------------------------
(* Properties: the scheduler *)

\* C8: at a tick inside the window at which the Potential Leads matched
\* today number at least DAILY_LIMIT, no scrape cycle runs and the loop
\* sleeps until the start of tomorrow's window, at any time of day.
C8_QuotaGate ==
    ( /\ tickKind # "Start"
      /\ WindowStart <= now
      /\ now <= WindowEnd
      /\ TodaysCount >= cfg.DAILY_LIMIT )
    => /\ tickKind = "QuotaExhausted"
       /\ NoCycleRan
       /\ wakeAt = WindowStart + DAY

\* the quota shuts an afternoon tick out
C8_Witness ==
    /\ tickKind = "QuotaExhausted"
    /\ TodaysCount >= cfg.DAILY_LIMIT
    /\ now % DAY >= 12 * HOUR
    /\ wakeAt = WindowStart + DAY

\* C9: the leads of the ledger that were created as Potential Lead on the
\* day of `now` never number more than DAILY_LIMIT.
C9_DailyCap ==
    Cardinality({ j \in 1..Len(cache) :
                    /\ cache[j].statusHistory[1].new_status = "Potential Lead"
                    /\ DateParse(cache[j].matchedOn) \div DAY = now \div DAY })
       <= cfg.DAILY_LIMIT

C10_WitnessEnd ==
    /\ tickKind = "OutsideWindow"
    /\ now % DAY = 18 * HOUR + SECOND

\* C11: the window is half-open: at a tick whose now is exactly the end of
\* today's window no scrape cycle runs, the tick is not Active (stated for
\* the windows that end after they start).
C11_HalfOpenWindow ==
    (tickKind # "Start" /\ WindowStart < WindowEnd /\ now = WindowEnd)
    => (tickKind # "Active" /\ NoCycleRan)

\* C12: when the window ends at the instant it starts, every tick is
\* OutsideWindow and no scrape cycle ever runs.
C12_ZeroWindow ==
    (tickKind # "Start" /\ WindowStart = WindowEnd)
    => (tickKind = "OutsideWindow" /\ NoCycleRan)

\* C13: with a daily limit of 0 every tick inside the window is
\* QuotaExhausted, whatever the ledger holds, and no scrape cycle ever runs.
C13_ZeroDailyLimit ==
    (tickKind # "Start" /\ cfg.DAILY_LIMIT = 0)
    => /\ tickKind # "Active"
       /\ NoCycleRan
       /\ \A id \in Ids : newSent[id] = 0 /\ transSent[id] = 0
       /\ (WindowStart <= now /\ now <= WindowEnd) => tickKind = "QuotaExhausted"

\* a tick inside the window found the quota of 0 exhausted by an empty ledger
C13_Witness ==
    /\ cfg.DAILY_LIMIT = 0
    /\ tickKind = "QuotaExhausted"
    /\ loaded = <<>>
    /\ WindowStart <= now
    /\ now <= WindowEnd

\* the instants today's Potential Leads of the loaded ledger were matched at
TodaysMatchTimes ==
    { DateParse(loaded[i].matchedOn) : i \in
        { n \in 1..Len(loaded) :
            /\ loaded[n].currentStatus = "Potential Lead"
            /\ DateParse(loaded[n].matchedOn) \div DAY = now \div DAY } }

NoonToday == (now \div DAY) * DAY + 12 * HOUR

\* the three conditions of the morning pause
MorningCondition ==
    /\ TodaysCount = cfg.MORNING_LIMIT
    /\ \E first \in TodaysMatchTimes :
          /\ \A other \in TodaysMatchTimes : first <= other
          /\ first < NoonToday
    /\ now < NoonToday

\* the tick is inside the window and the quota leaves room
OpenAndBelowQuota ==
    /\ tickKind # "Start"
    /\ WindowStart <= now
    /\ now <= WindowEnd
    /\ TodaysCount < cfg.DAILY_LIMIT

\* C14: at a tick inside the window that is not QuotaExhausted: if today's
\* count of Potential Leads equals MORNING_LIMIT, the earliest of today's
\* matches is before noon and now is before noon, no scrape cycle runs and
\* the loop sleeps until noon; if one of the three fails the tick is Active.
C14_MorningPause ==
    OpenAndBelowQuota =>
       IF MorningCondition
       THEN tickKind = "MorningPause" /\ NoCycleRan /\ wakeAt = NoonToday
       ELSE tickKind = "Active"

\* C15: at every tick at or after noon, inside the window and with today's
\* count below DAILY_LIMIT, a scrape cycle runs (the tick is Active), also
\* when the count equals MORNING_LIMIT.
C15_PauseNotSticky ==
    (OpenAndBelowQuota /\ now >= NoonToday) => tickKind = "Active"

\* C16: every tick is exactly one of OutsideWindow, QuotaExhausted,
\* MorningPause, Active, in that order of priority: outside the window the
\* tick is OutsideWindow whatever the counts; inside it, a count that has
\* reached DAILY_LIMIT makes it QuotaExhausted with a sleep until the start
\* of tomorrow's window, also when the count equals MORNING_LIMIT before noon.
C16_OneStateByPriority ==
    tickKind # "Start" =>
       /\ tickKind \in {"OutsideWindow", "QuotaExhausted", "MorningPause", "Active"}
       /\ (now < WindowStart \/ now > WindowEnd) => tickKind = "OutsideWindow"
       /\ (WindowStart <= now /\ now <= WindowEnd /\ TodaysCount >= cfg.DAILY_LIMIT)
             => (tickKind = "QuotaExhausted" /\ wakeAt = WindowStart + DAY)

\* C17: after an OutsideWindow tick the loop holds no browser and has run no
\* scrape cycle; it sleeps until the start of today's window when now is
\* before it, until the start of tomorrow's window otherwise; and the next
\* tick, so the next scrape cycle, comes no earlier than that wake-up.
C17_OutsideWindowAction ==
    /\ [](tickKind = "OutsideWindow" =>
             /\ ~browser
             /\ NoCycleRan
             /\ wakeAt = IF now < WindowStart THEN WindowStart ELSE WindowStart + DAY)
    /\ [][tickKind = "OutsideWindow" => now' >= wakeAt]_vars

\* a tick after the end of the window sleeps until tomorrow's start
C17_Witness ==
    /\ tickKind = "OutsideWindow"
    /\ now > WindowEnd
    /\ ~browser
    /\ wakeAt = WindowStart + DAY

----------------------------------------------------------------------------
(* Properties: the keyword matcher *)

\* keyword k occurs in the text once the text is put in lower case
Lower(ch) == IF ch = "A" THEN "a" ELSE IF ch = "B" THEN "b" ELSE ch
IsSubstring(k, text) ==
    \E off \in 0..(Len(text) - Len(k)) :
       \A n \in 1..Len(k) : Lower(text[off + n]) = k[n]

\* the text and the marker of a scraped record
TextOf(rec) == rec.content[2]
MarkerOf(rec) == rec.content[1]

\* C18: for a record without the Waitlist marker, a non-empty text and a
\* non-empty keyword list, the record matches under match type "each" iff at
\* least one keyword occurs in the lower-cased text, and under "all" iff
\* every keyword does; so the text "Ab" matches the keywords a, b under both
\* types, and the keywords a, c under "each" but not under "all".
C18_KeywordModes ==
    \A n \in 1..Len(leadsOnPage) :
       LET rec == leadsOnPage[n]
           keywords == cfg.KEYWORD_ARRAY
       IN  (~MarkerOf(rec) /\ TextOf(rec) # <<>> /\ keywords # <<>>) =>
              /\ cfg.MATCH_TYPE = "each" =>
                    (rec.hasMatch <=>
                       \E i \in 1..Len(keywords) : IsSubstring(keywords[i], TextOf(rec)))
              /\ cfg.MATCH_TYPE = "all" =>
                    (rec.hasMatch <=>
                       \A i \in 1..Len(keywords) : IsSubstring(keywords[i], TextOf(rec)))
              /\ cfg.MATCH_TYPE \in {"each", "all"}
              /\ (TextOf(rec) = <<"A", "b">> /\ keywords = << <<"a">>, <<"b">> >>)
                    => rec.hasMatch
              /\ (TextOf(rec) = <<"A", "b">> /\ keywords = << <<"a">>, <<"c">> >>)
                    => (rec.hasMatch <=> cfg.MATCH_TYPE = "each")

\* under "all", a text that holds one of the two keywords but not the other
\* does not match, and no lead is created
C18_Witness ==
    /\ tickKind = "Active"
    /\ cfg.MATCH_TYPE = "all"
    /\ cfg.KEYWORD_ARRAY = << <<"a">>, <<"c">> >>
    /\ Len(leadsOnPage) = 1
    /\ TextOf(leadsOnPage[1]) = <<"A", "b">>
    /\ ~MarkerOf(leadsOnPage[1])
    /\ ~leadsOnPage[1].hasMatch
    /\ cache = <<>>

\* C19: with an empty keyword list no text matches under either match type:
\* no record without the marker is a match, and no lead is created as
\* Potential Lead.
C19_EmptyKeywordsNeverMatch ==
    cfg.KEYWORD_ARRAY = <<>> =>
       /\ \A n \in 1..Len(leadsOnPage) :
             ~MarkerOf(leadsOnPage[n]) =>
                (~leadsOnPage[n].hasMatch /\ leadsOnPage[n].status # "Potential Lead")
       /\ \A j \in 1..Len(cache) :
             cache[j].statusHistory[1].new_status # "Potential Lead"

\* C20: a record with the Waitlist marker is classified by the marker alone:
\* it reads Already Waitlisted whatever its text and the keywords, and when
\* the ledger does not hold its id the lead is created as Already
\* Waitlisted, never as Potential Lead.
C20_MarkerPrecedence ==
    \A n \in 1..Len(leadsOnPage) :
       MarkerOf(leadsOnPage[n]) =>
          /\ leadsOnPage[n].hasMatch
          /\ leadsOnPage[n].status = "Already Waitlisted"
          /\ (Processed(n) /\ FirstNew(n)) =>
                \E j \in 1..Len(cache) :
                   /\ cache[j].id = leadsOnPage[n].id
                   /\ Statuses(cache[j]) = <<"Already Waitlisted">>
                   /\ cache[j].currentStatus = "Already Waitlisted"
                   /\ \A i \in 1..Len(cache) : cache[i].id = cache[j].id => i = j

\* a lead created from a record with the marker whose text holds no keyword
C20_Witness ==
    /\ tickKind = "Active"
    /\ cfg.KEYWORD_ARRAY = << <<"a">> >>
    /\ Len(leadsOnPage) = 1
    /\ MarkerOf(leadsOnPage[1])
    /\ TextOf(leadsOnPage[1]) = <<"b">>
    /\ Len(cache) = 1
    /\ cache[1].currentStatus = "Already Waitlisted"

\* ... and one whose text holds a keyword
C20_WitnessMatching ==
    /\ tickKind = "Active"
    /\ cfg.KEYWORD_ARRAY = << <<"a">> >>
    /\ Len(leadsOnPage) = 1
    /\ MarkerOf(leadsOnPage[1])
    /\ TextOf(leadsOnPage[1]) = <<"a">>
    /\ Len(cache) = 1
    /\ cache[1].currentStatus = "Already Waitlisted"

----------------------------------------------------------------------------
(* Properties: what a cycle leaves alone, and the store *)

\* the last cycle extracted only records that call for nothing: an unknown
\* id with neither the Waitlist marker nor a keyword match, or a known id
\* that is not a Potential Lead observed with the Waitlist marker
NoOpCycle ==
    /\ tickKind = "Active"
    /\ \A k \in 1..Len(leadsOnPage) :
          IF leadsOnPage[k].id \in LedgerIds(loaded)
          THEN \A i \in 1..Len(loaded) :
                  loaded[i].id = leadsOnPage[k].id =>
                     ~ ( /\ loaded[i].currentStatus = "Potential Lead"
                         /\ leadsOnPage[k].status = "Already Waitlisted" )
          ELSE ~MarkerOf(leadsOnPage[k]) /\ ~leadsOnPage[k].hasMatch

\* the last cycle created a lead or changed one
Mutated ==
    \/ \E j \in 1..Len(cache) : cache[j].id \notin LedgerIds(loaded)
    \/ \E i \in 1..Len(loaded), j \in 1..Len(cache) :
          loaded[i].id = cache[j].id /\ loaded[i] # cache[j]

\* C21: a cycle whose records call for nothing (see NoOpCycle) leaves the
\* ledger as it was loaded, sends no notification and does not write the
\* file, which still holds the loaded ledger; and a cycle calls writeCache
\* only when it created or transitioned at least one lead.
C21_NoOpCycle ==
    /\ NoOpCycle =>
          /\ cache = loaded
          /\ sent = <<>>
          /\ ~saved
          /\ store.kind = "ledger" => store.matchedLeads = loaded
    /\ saved => (tickKind = "Active" /\ Mutated)

\* a cycle saw a known Potential Lead unchanged and an unknown record without
\* match, and left ledger and file alone
C21_Witness ==
    /\ NoOpCycle
    /\ faults = NoFault
    /\ Len(leadsOnPage) = 2
    /\ leadsOnPage[1].id \in LedgerIds(loaded)
    /\ leadsOnPage[1].status = "Potential Lead"
    /\ leadsOnPage[2].id \notin LedgerIds(loaded)
    /\ cache = loaded
    /\ store.matchedLeads = loaded
    /\ ~saved

\* C22: after every tick the ledger is the leads the tick created, in the
\* reverse of the order of their records on the page, followed by the
\* loaded leads in the order they were loaded in (so each new lead went in
\* at index 0); and in every ledger, in memory or in the file, no lead
\* stands before a lead that was created later.
C22_LedgerOrder ==
    /\ Len(cache) >= Len(loaded)
    /\ \A i \in 1..Len(loaded) :
          cache[Len(cache) - Len(loaded) + i].id = loaded[i].id
    /\ \A i, j \in 1..(Len(cache) - Len(loaded)) :
          i < j =>
             \E a, b \in 1..Len(leadsOnPage) :
                /\ FirstNew(a) /\ leadsOnPage[a].id = cache[i].id
                /\ FirstNew(b) /\ leadsOnPage[b].id = cache[j].id
                /\ b < a
    /\ \A g \in 1..3 : \A i, j \in 1..Len(Ledgers[g]) :
          i < j => DateParse(Ledgers[g][i].matchedOn) >= DateParse(Ledgers[g][j].matchedOn)

\* a cycle created a lead in front of a lead of an earlier day
C22_Witness ==
    /\ tickKind = "Active"
    /\ Len(loaded) = 1
    /\ Len(cache) = 2
    /\ cache[2].id = loaded[1].id
    /\ cache[1].id # cache[2].id
    /\ DateParse(cache[1].matchedOn) > DateParse(cache[2].matchedOn)

\* ... and a cycle created two leads: the later record stands first
C22_WitnessTwo ==
    /\ tickKind = "Active"
    /\ loaded = <<>>
    /\ Len(cache) = 2
    /\ Len(leadsOnPage) = 2
    /\ cache[1].id = leadsOnPage[2].id
    /\ cache[2].id = leadsOnPage[1].id
    /\ cache[1].id # cache[2].id

\* C23: across a tick every lead the ledger was loaded with keeps its id,
\* matchedOn, content and links; it is either left exactly as it was, or it
\* was a Potential Lead that the cycle observed with the Waitlist marker and
\* differs from what it was only in currentStatus and in the entry appended
\* to statusHistory.
C23_LeadFrame ==
    \A i \in 1..Len(loaded), j \in 1..Len(cache) :
       loaded[i].id = cache[j].id =>
          /\ cache[j].matchedOn = loaded[i].matchedOn
          /\ cache[j].content = loaded[i].content
          /\ cache[j].links = loaded[i].links
          /\ \/ cache[j] = loaded[i]
             \/ /\ tickKind = "Active"
                /\ loaded[i].currentStatus = "Potential Lead"
                /\ \E k \in 1..Len(leadsOnPage) :
                      /\ leadsOnPage[k].id = loaded[i].id
                      /\ leadsOnPage[k].status = "Already Waitlisted"
                /\ cache[j] =
                      [loaded[i] EXCEPT
                          !.currentStatus = "Transitioned to Waitlisted",
                          !.statusHistory = Append(loaded[i].statusHistory,
                              [datetime_changed |-> toISOString(now),
                               new_status |-> "Transitioned to Waitlisted"])]

\* a cycle transitioned one lead of a ledger of two and left the other alone
C23_Witness ==
    /\ tickKind = "Active"
    /\ Len(loaded) = 2
    /\ Len(cache) = 2
    /\ \E i, j \in 1..2 :
          /\ i # j
          /\ cache[i] = loaded[i]
          /\ cache[j] # loaded[j]
          /\ cache[j].id = loaded[j].id
          /\ cache[j].currentStatus = "Transitioned to Waitlisted"

\* C24: from one tick to the next no lead id leaves the ledger: every id of
\* the ledger a tick ended with is in the ledger the next tick loads, also
\* when the write of the file failed.
C24_NeverDeleted ==
    [][LedgerIds(cache) \subseteq LedgerIds(loaded')]_vars

\* the last cycle called writeCache and fs.writeFile failed
SaveFailed == tickKind = "Active" /\ saved /\ faults.writeFails

\* C25: after a cycle whose write of the file failed the loop is still
\* running, and the tick that follows works on a ledger that holds every
\* lead of the failed cycle as that cycle left it.
C25_PersistenceError ==
    [][SaveFailed =>
          /\ running
          /\ \A j \in 1..Len(cache) :
                \E i \in 1..Len(loaded') : loaded'[i] = cache[j]]_vars

\* the last cycle failed at page.reload or at the extraction of the articles
SourceFailed == tickKind = "Active" /\ faults.failAt = 0

\* C26: a cycle whose page reload or article extraction fails leaves the
\* ledger as it was loaded, does not call writeCache (the file still holds
\* the loaded ledger) and sends no notification; the loop is still running,
\* sleeps CHECK_INTERVAL_MS, and its next tick comes no earlier than that.
C26_SourceError ==
    /\ [](SourceFailed =>
             /\ cache = loaded
             /\ store = [kind |-> "ledger", matchedLeads |-> loaded]
             /\ ~saved
             /\ sent = <<>>
             /\ leadsOnPage = <<>>
             /\ running
             /\ wakeAt = now + CHECK_INTERVAL_MS)
    /\ [][SourceFailed => now' >= now + CHECK_INTERVAL_MS]_vars

\* the reload failed at a tick whose ledger held a lead: ledger and file
\* are as loaded and the loop is running
C26_Witness ==
    /\ SourceFailed
    /\ loaded # <<>>
    /\ cache = loaded
    /\ store.matchedLeads = loaded
    /\ running

\* transporter.sendMail failed in the last cycle
MailFailed == tickKind = "Active" /\ faults.mailFails

\* C27: in a cycle in which the delivery of the notifications fails, the loop
\* still goes through every record: each record that can create a lead has
\* its lead in the ledger, each loaded Potential Lead observed with the
\* Waitlist marker is Transitioned to Waitlisted, every lead a notification
\* was attempted for is in the ledger with the notified status in its
\* history, and the cycle ends with a writeCache call that leaves the file
\* equal to the ledger; the loop is still running.
C27_NotifierError ==
    MailFailed =>
       /\ \A k \in 1..Len(leadsOnPage) :
             FirstNew(k) => \E j \in 1..Len(cache) : cache[j].id = leadsOnPage[k].id
       /\ \A i \in 1..Len(loaded), k \in 1..Len(leadsOnPage) :
             ( /\ loaded[i].currentStatus = "Potential Lead"
               /\ leadsOnPage[k].id = loaded[i].id
               /\ leadsOnPage[k].status = "Already Waitlisted" )
             => \E j \in 1..Len(cache) :
                   /\ cache[j].id = loaded[i].id
                   /\ cache[j].currentStatus = "Transitioned to Waitlisted"
       /\ \A n \in 1..Len(sent) :
             \E j \in 1..Len(cache) :
                /\ cache[j].id = sent[n].id
                /\ \E h \in 1..Len(cache[j].statusHistory) :
                      cache[j].statusHistory[h].new_status = sent[n].currentStatus
       /\ Mutated
       /\ saved
       /\ store = [kind |-> "ledger", matchedLeads |-> cache]
       /\ running

\* the delivery failed in a cycle that created two leads: both are in the
\* ledger and in the file
C27_Witness ==
    /\ MailFailed
    /\ Len(sent) = 2
    /\ Len(cache) = Len(loaded) + 2
    /\ store.matchedLeads = cache

\* ... and in a cycle that transitioned a lead
C27_WitnessTransition ==
    /\ MailFailed
    /\ \E n \in 1..Len(sent) : sent[n].elapsedTime # <<>>
    /\ store.matchedLeads = cache

\* C28: at the end of every cycle whose writes do not fail, also of one cut
\* short after some records were processed, the file holds the same leads
\* as the ledger in memory, and every lead a notification was sent for in
\* the cycle is in the file.
C28_PartialCycle ==
    (tickKind = "Active" /\ ~faults.writeFails) =>
       /\ store.matchedLeads = cache
       /\ \A n \in 1..Len(sent) :
             \E i \in 1..Len(store.matchedLeads) : store.matchedLeads[i].id = sent[n].id

\* C29: a tick that finds the file absent, empty or not parseable loads an
\* empty ledger and rewrites the file as an empty ledger (which a cycle of
\* the same tick may then overwrite); when that rewrite fails the file is
\* left as it was; either way the tick goes on to the scheduler, which
\* decides on the empty ledger: outside the window by the clock, quota
\* only with DAILY_LIMIT 0, never a morning pause.
C29_CacheResilience ==
    [][store.kind # "ledger" =>
          /\ loaded' = <<>>
          /\ IF faults'.writeFails
             THEN store' = store
             ELSE /\ store'.kind = "ledger"
                  /\ store'.matchedLeads = (IF saved' THEN cache' ELSE <<>>)
          /\ tickKind' \in {"OutsideWindow", "QuotaExhausted", "TypeError", "Active"}
          /\ (tickKind' = "OutsideWindow") <=> OutsideWindow(cfg, now')
          /\ (tickKind' = "QuotaExhausted") => cfg.DAILY_LIMIT = 0
          /\ (tickKind' = "TypeError") => cfg.MORNING_LIMIT = 0]_vars

\* the file was empty, its rewrite failed, and the tick ran a cycle that
\* created a lead
C29_Witness ==
    /\ store.kind = "empty"
    /\ faults.writeFails
    /\ tickKind = "Active"
    /\ loaded = <<>>
    /\ Len(cache) = 1

\* ... and a file that could not be read has been rewritten as an empty ledger
C29_WitnessRewritten ==
    /\ store = [kind |-> "ledger", matchedLeads |-> <<>>]
    /\ tickKind = "OutsideWindow"
    /\ now = 7 * HOUR
    /\ ~faults.writeFails

----------------------------------------------------------------------------
(* Properties: the loop at the grain of its awaits *)

\* a step that is not the return of a cycle: a loop iteration begins
IterationBegins == inFlight' >= inFlight

\* C30: at most one call of performScrapeCycle is in flight, and exactly
\* while main stands at its await; a loop iteration (which reloads the
\* ledger, and may start a cycle) begins only when no cycle is in flight;
\* and what a cycle wrote to the file is what the next iteration loads.
C30_OneCycleInFlight ==
    /\ [](inFlight <= 1 /\ (inFlight = 1 <=> pc = "await"))
    /\ [][IterationBegins => inFlight = 0]_vars
    /\ [][(IterationBegins /\ tickKind = "Active" /\ saved /\ ~faults.writeFails)
             => loaded' = cache]_vars

\* a cycle is in flight, called on the ledger that an earlier cycle wrote
C30_Witness ==
    /\ pc = "await"
    /\ inFlight = 1
    /\ tickKind = "Cycle"
    /\ loaded # <<>>
    /\ \E id \in Ids : newSent[id] > 0

----------------------------------------------------------------------------
(* Properties: sleeps, the daily count, the browser *)

\* the last tick ended in one of the three long sleeps
Sleeping == tickKind \in {"OutsideWindow", "QuotaExhausted", "MorningPause"}

\* the process has been started again while such a sleep was pending
RestartedInSleep ==
    /\ tickKind = "Start"
    /\ wakeAt > now
    /\ wakeAt # now + CHECK_INTERVAL_MS

\* C31: after a tick that ends in OutsideWindow, QuotaExhausted or
\* MorningPause the wake instant lies strictly after the tick's instant and
\* is the one the state calls for (today's window start before the window,
\* tomorrow's after it and on quota, noon today on the morning pause); the
\* next tick of the process comes no earlier than the wake instant; and when
\* the process is started again in the middle of such a sleep, its first
\* tick, if it comes before that wake instant, sleeps again until the same
\* wake instant.
C31_SleepFromNow ==
    /\ [](Sleeping =>
             /\ wakeAt > now
             /\ wakeAt = CASE tickKind = "MorningPause" -> NoonToday
                           [] tickKind = "QuotaExhausted" -> WindowStart + DAY
                           [] OTHER -> IF now < WindowStart THEN WindowStart
                                       ELSE WindowStart + DAY)
    /\ [][(Sleeping /\ tickKind' # "Start") => (now' >= wakeAt /\ now' > now)]_vars
    /\ [][(RestartedInSleep /\ now' < wakeAt) => (Sleeping' /\ wakeAt' = wakeAt)]_vars

\* the process has been started again during a morning pause, before noon,
\* on a file that holds the lead matched this morning
C31_Witness ==
    /\ RestartedInSleep
    /\ wakeAt = NoonToday
    /\ now < wakeAt
    /\ store.kind = "ledger"
    /\ \E i \in 1..Len(store.matchedLeads) :
          /\ store.matchedLeads[i].currentStatus = "Potential Lead"
          /\ DateParse(store.matchedLeads[i].matchedOn) \div DAY = now \div DAY

\* the leads of ledger l that are Potential Lead and were matched on the day
\* of `now`, midnight included and the next midnight excluded
CountedToday(l) ==
    { i \in 1..Len(l) :
         /\ l[i].currentStatus = "Potential Lead"
         /\ (now \div DAY) * DAY <= DateParse(l[i].matchedOn)
         /\ DateParse(l[i].matchedOn) < (now \div DAY) * DAY + DAY }

\* C32: today's matches, as a tick takes them from the ledger it loaded, are
\* exactly the leads of that ledger that are Potential Lead with matchedOn in
\* [midnight today, midnight tomorrow), in ledger order; and after one of
\* them has transitioned, today's matches taken again are one fewer (the
\* same number when the lead that transitioned was matched on another day).
C32_DailyCount ==
    /\ tickKind = "Counted" =>
          /\ Len(cache) = Cardinality(CountedToday(loaded))
          /\ \A i \in CountedToday(loaded) : \E j \in 1..Len(cache) : cache[j] = loaded[i]
          /\ \A j \in 1..Len(cache) : \E i \in CountedToday(loaded) : cache[j] = loaded[i]
    /\ tickKind = "Transitioned" =>
          /\ Len(cache) = Cardinality(CountedToday(store.matchedLeads))
          /\ \E i \in 1..Len(loaded) :
                /\ store.matchedLeads[i].currentStatus = "Transitioned to Waitlisted"
                /\ loaded[i].currentStatus = "Potential Lead"
                /\ Len(cache) = Cardinality(CountedToday(loaded))
                                  - (IF i \in CountedToday(loaded) THEN 1 ELSE 0)

\* a ledger of a lead matched at midnight today (counted) and a transitioned
\* lead of the day before (not counted)
C32_Witness ==
    /\ tickKind = "Counted"
    /\ now = DAY + 12 * HOUR
    /\ Len(loaded) = 2
    /\ Len(cache) = 1
    /\ DateParse(cache[1].matchedOn) = DAY
    /\ loaded[2].currentStatus = "Transitioned to Waitlisted"

\* ... and the count has gone from 2 to 1 with a transition
C32_WitnessTransition ==
    /\ tickKind = "Transitioned"
    /\ Cardinality(CountedToday(loaded)) = 2
    /\ Len(cache) = 1

\* C33: with DAILY_LIMIT >= 1 and MORNING_LIMIT = 0, a tick inside the window
\* at which no Potential Lead has been matched today ends in MorningPause or
\* Active, and the loop is still running after it.
C33_MorningLimitZero ==
    ( /\ tickKind # "Start"
      /\ cfg.DAILY_LIMIT >= 1
      /\ cfg.MORNING_LIMIT = 0
      /\ WindowStart <= now
      /\ now <= WindowEnd
      /\ TodaysCount = 0 )
    => /\ tickKind \in {"MorningPause", "Active"}
       /\ running

\* C34: with a window of positive duration and DAILY_LIMIT >= 1, a
\* QuotaExhausted tick sleeps until tomorrow's window start, the next tick
\* comes no earlier, and when it comes at that instant with no Potential
\* Lead matched on the new day and the morning condition not holding, it is
\* Active.
C34_QuotaThenActive ==
    [][( /\ tickKind = "QuotaExhausted"
         /\ cfg.DAILY_LIMIT >= 1
         /\ WindowStart < WindowEnd )
       => /\ wakeAt = WindowStart + DAY
          /\ now' >= wakeAt
          /\ (now' = wakeAt /\ TodaysCount' = 0 /\ ~MorningCondition')
                => tickKind' = "Active"]_vars

\* C35: whenever the loop has gone into a sleep that lasts beyond the end of
\* today's window, or has started one outside the window, it holds no
\* browser.
C35_NoBrowserOutsideWindow ==
    (Sleeping /\ (wakeAt > WindowEnd \/ now < WindowStart \/ now > WindowEnd))
    => ~browser

\* C36: a tick that finds in the file JSON that is not an object with a
\* matchedLeads array (null, an array, an object without the field) works on
\* an empty ledger, and the loop is still running after it.
C36_WrongShape ==
    [][~Shaped(store) => (loaded' = <<>> /\ running')]_vars

----------------------------------------------------------------------------
(* Properties: the interval-driven scraper *)

\* run j of intervalJob has begun and is not over
Executing(j) == jobs[j].pc \notin {"idle", "done"}

\* C37: at most one run of intervalJob is executing at any time: a run begun
\* by the timer never begins while an earlier run is still at an await.
C37_OneJobAtATime ==
    Cardinality({ j \in Runs : Executing(j) }) <= 1

\* C38: within one process run no title has its Accept link clicked more
\* than once, whatever the interleaving of the runs: a run that is about to
\* click holds a title that is in acceptedLeadTitles, and so is every title
\* that was clicked.
C38_AcceptedOnce ==
    /\ \A t \in Titles : clicks[t] <= 1 /\ (clicks[t] = 1 => t \in acceptedLeadTitles)
    /\ \A j \in Runs : jobs[j].pc = "click" => jobs[j].lead \in acceptedLeadTitles

\* two runs begun by the timer both found "x" not cached and chose it, and
\* its link was clicked
C38_Witness ==
    /\ jobs[2].lead = "x"
    /\ jobs[3].lead = "x"
    /\ clicks["x"] = 1

\* the call of scrapeAndAcceptLeads of run j ends here without having
\* accepted the lead whose title it added to acceptedLeadTitles
FailsAfterAdd(j) ==
    /\ jobs[j].lead # NoLead
    /\ jobs[j].acceptedCount = 0
    /\ jobs[j].pc # "done"
    /\ jobs'[j].pc = "done"

\* the persistence point of a call whose click and confirmations went through
SavesAfterAccept(j) ==
    /\ jobs[j].pc = "save"
    /\ jobs[j].clicked = 1
    /\ jobs'[j].wrote

\* C39: a call of scrapeAndAcceptLeads clicks at most one Accept link, that of
\* the first article with a link whose title is not cached, and returns 0 or
\* 1; a call that fails after it added the title leaves the title in
\* acceptedLeadTitles and does not write the file; once the titles are loaded
\* the file is written only at the persistence point of a call that accepted
\* its lead, or on critical shutdown.
C39_OneLeadPerCall ==
    /\ [](\A j \in Runs :
            /\ jobs[j].acceptedCount \in {0, 1}
            /\ jobs[j].clicked \in {0, 1}
            /\ jobs[j].acceptedCount = 1 <=> jobs[j].wrote
            /\ jobs[j].wrote => jobs[j].clicked = 1
            /\ jobs[j].pc \in {"goto", "back"} <=> (Executing(j) /\ jobs[j].acceptedCount = 1)
            /\ jobs[j].lead # NoLead =>
                 /\ jobs[j].lead \in acceptedLeadTitles
                 /\ \E i \in 1..Len(jobs[j].handles) :
                       /\ jobs[j].handles[i] = jobs[j].lead
                       /\ \A k \in 1..(i - 1) :
                             jobs[j].handles[k] \in {NoAccept} \cup acceptedLeadTitles)
    /\ [][\A j \in Runs : FailsAfterAdd(j) =>
             /\ jobs[j].lead \in acceptedLeadTitles'
             /\ ~jobs'[j].wrote
             /\ leadsFile' = leadsFile \/ phase' = "shutdown"]_vars
    /\ [][(phase # "load" /\ leadsFile' # leadsFile) =>
             \/ phase' = "shutdown"
             \/ \E j \in Runs : SavesAfterAccept(j)]_vars

\* a run clicked the link of "x" and failed before the persistence point:
\* it returned 0, "x" is in the Set and not in the file
C39_Witness ==
    /\ \E j \in Runs :
          /\ jobs[j].pc = "done"
          /\ jobs[j].clicked = 1
          /\ jobs[j].acceptedCount = 0
          /\ ~jobs[j].wrote
    /\ clicks["x"] = 1
    /\ "x" \in acceptedLeadTitles
    /\ "x" \notin leadsFile.titles

====
